---- MODULE Spec2Model ----
(***************************************************************************)
(* The local note store of the Flickr MCP server and the four note tools   *)
(* that expose it.  Both persistence backends of the repository are        *)
(* modelled and driven by the same tool calls: the flat JSON document      *)
(* (notes.json, src/src/notes-db.ts) and the SQLite table (notes.db,       *)
(* src/unnamed/part_000).                                                  *)
(*                                                                         *)
(* Texts are sequences of one-character strings.  The clock counts         *)
(* half-seconds; created_at keeps whole seconds only.                      *)
(***************************************************************************)
EXTENDS Integers, Sequences, FiniteSets, TLC

VARIABLES
    running,    \* the server process is up and initNotesDb has run
    now,        \* wall clock, in half-seconds
    data,       \* JSON backend: the module variable `data` (in memory)
    file,       \* JSON backend: the content of notes.json, or NoFile
    db,         \* SQLite backend: the content of notes.db, or NoFile
    res,        \* the answer of the last tool call
    pre,        \* history: the store and the files the last tool call found
    seeded,     \* history: the notes the store held when the run began
    returned,   \* history: the ids addNote returned (json, sql), in call order
    live,       \* history: the notes added and not deleted since
    delLog,     \* history: per id added, the answers of the deleteNote calls with it
    watch,      \* history: delete of the newest note -> restart -> add
    fault,      \* what the environment did to the last tool call
    calls,      \* the Flickr API calls the last tool call issued, in order
    proc,       \* main's position, _flickr and _userId of the Flickr client
                \* module, and whether the tools are registered
    oauth       \* the setup script: the promise of waitForCallback, its HTTP
                \* server and timer, and the events so far

vars == <<running, now, data, file, db, res, pre, seeded, returned, live, delLog, watch,
          fault, calls, proc, oauth>>

----------------------------------------------------------------------------
(* Bounds of the model *)

MaxAdds == 3
MaxClock == 2
MaxBulkAdds == 1

(* Inputs the tool calls are drawn from *)

\* (entity_type, entity_id, note) of flickr_add_note
AddInputs ==
    { <<"photo", "1", <<"A", "b">>>>, <<"photo", "2", <<"x">>>>,
      <<"group", "1", <<"x">>>>,
      <<"photo", "1", <<>>>>, <<"user", "1", <<"x">>>> }
\* (entity_type, entity_id) of flickr_get_notes
GetInputs == { <<"photo", "1">>, <<"group", "1">>, <<"user", "1">> }
QueryInputs == { <<>>, <<"a">>, <<"a", "B">>, <<"_">> }
NoteIdInputs == 0..(MaxAdds + 1)

----------------------------------------------------------------------------
(* Strings *)

Range(s) == { s[k] : k \in 1..Len(s) }

Last(s) == s[Len(s)]

\* String.prototype.toLowerCase, one character
LowerChar(c) ==
    CASE c = "A" -> "a"
      [] c = "B" -> "b"
      [] c = "X" -> "x"
      [] c = "Y" -> "y"
      [] OTHER -> c

toLowerCase(s) == [k \in 1..Len(s) |-> LowerChar(s[k])]

\* String.prototype.includes
includes(s, sub) ==
    \E k \in 0..(Len(s) - Len(sub)) : SubSeq(s, k + 1, k + Len(sub)) = sub

\* SQLite's LIKE: % matches any run of characters, _ any one character,
\* every other character itself, ASCII letters without regard to case.
RECURSIVE Like(_, _)
Like(s, p) ==
    IF p = <<>> THEN s = <<>>
    ELSE IF Head(p) = "%"
         THEN Like(s, Tail(p)) \/ (s # <<>> /\ Like(Tail(s), p))
    ELSE IF s = <<>> THEN FALSE
    ELSE IF Head(p) = "_" THEN Like(Tail(s), Tail(p))
    ELSE LowerChar(Head(s)) = LowerChar(Head(p)) /\ Like(Tail(s), Tail(p))

\* new Date().toISOString().replace("T", " ").slice(0, 19) and SQLite's
\* datetime('now'): the clock cut to whole seconds
Timestamp(t) == t \div 2

----------------------------------------------------------------------------
(* JSON backend *)

\* notes.json does not exist
NoFile == <<>>
\* the module variable `data` before initNotesDb assigns it
NoData == [undefined |-> TRUE]

EntityType == {"photo", "album", "group"}

NoteRow(id, entityType, entityId, note, createdAt) ==
    [id |-> id, entity_type |-> entityType, entity_id |-> entityId,
     note |-> note, created_at |-> createdAt]

\* JSON.stringify with created_at left out of every note
Stringify_noCreatedAt(d) ==
    <<d.next_id,
      [k \in 1..Len(d.notes) |->
          <<d.notes[k].id, d.notes[k].entity_type, d.notes[k].entity_id,
            d.notes[k].note, 0>>]>>

\* JSON.stringify(data, null, 2): the document as its values in writing order
Stringify(d) ==
    <<d.next_id,
      [k \in 1..Len(d.notes) |->
          <<d.notes[k].id, d.notes[k].entity_type, d.notes[k].entity_id,
            d.notes[k].note, d.notes[k].created_at>>]>>

\* JSON.parse of a document Stringify wrote
Parse(f) ==
    [next_id |-> f[1],
     notes |-> [k \in 1..Len(f[2]) |->
                   NoteRow(f[2][k][1], f[2][k][2], f[2][k][3], f[2][k][4], f[2][k][5])]]

\* writeFileSync(JSON_PATH, JSON.stringify(data, null, 2)): the new file
save(d) == Stringify(d)

\* JSON.parse accepts the file: it is a whole document
Parses(f) == Len(f) = 2

\* what a writeFileSync of doc that was cut short leaves: the file was
\* truncated on open, the next id and the first k notes were written, the
\* rest of the text was not
TornWrites(doc) == { <<doc[1], SubSeq(doc[2], 1, k), "eof">> : k \in 0..Len(doc[2]) }

\* initNotesDb with next_id recomputed from the notes instead of read back
initNotesDb_recount(f) ==
    IF f # NoFile
    THEN [data |-> [Parse(f) EXCEPT !.next_id =
                       1 + (IF Len(Parse(f).notes) = 0 THEN 0
                            ELSE Parse(f).notes[Len(Parse(f).notes)].id)],
          file |-> f, threw |-> FALSE]
    ELSE LET fresh == [next_id |-> 1, notes |-> <<>>]
         IN  [data |-> fresh, file |-> Stringify(fresh), threw |-> FALSE]

\* the store and the file after initNotesDb found the file f; JSON.parse
\* throws on a file that is not a whole document and `data` stays unassigned
initNotesDb(f) ==
    IF f # NoFile
    THEN IF Parses(f)
         THEN [data |-> Parse(f), file |-> f, threw |-> FALSE]
         ELSE [data |-> NoData, file |-> f, threw |-> TRUE]
    ELSE LET fresh == [next_id |-> 1, notes |-> <<>>]
         IN  [data |-> fresh, file |-> save(fresh), threw |-> FALSE]

\* addNote with next_id read but not incremented
addNote_sameId(d, entityType, entityId, note, t) ==
    LET row == NoteRow(d.next_id, entityType, entityId, note, Timestamp(t))
        d2 == [next_id |-> d.next_id, notes |-> Append(d.notes, row)]
    IN  [data |-> d2, file |-> Stringify(d2), row |-> row]

\* the store, the file and the row after addNote
addNote(d, entityType, entityId, note, t) ==
    LET row == NoteRow(d.next_id, entityType, entityId, note, Timestamp(t))
        d2 == [next_id |-> d.next_id + 1, notes |-> Append(d.notes, row)]
    IN  [data |-> d2, file |-> save(d2), row |-> row]

\* addNote with save() wrapped in a try/catch that drops the error
addNote_writeSwallowed(d, entityType, entityId, note, t, left) ==
    LET row == NoteRow(d.next_id, entityType, entityId, note, Timestamp(t))
        d2 == [next_id |-> d.next_id + 1, notes |-> Append(d.notes, row)]
    IN  [data |-> d2, file |-> left, threw |-> FALSE, row |-> row]

\* addNote when writeFileSync throws: next_id++ and push have run, save()
\* throws and nothing catches it; left is the file the write left behind
addNoteWriteFails(d, entityType, entityId, note, t, left) ==
    LET row == NoteRow(d.next_id, entityType, entityId, note, Timestamp(t))
        d2 == [next_id |-> d.next_id + 1, notes |-> Append(d.notes, row)]
    IN  [data |-> d2, file |-> left, threw |-> TRUE, row |-> NoData]

\* the files a writeFileSync of doc over f can leave when it throws: f as it
\* was (the open failed) or a cut-short write (the disk filled up)
LeftBehind(f, doc) == {f} \cup TornWrites(doc)

\* a stable sort of rows, col descending: a row goes behind the rows with a
\* greater col and behind the rows with the same col that stood before it
StableSortDesc(rows, col) ==
    LET n == Len(rows)
        place == <<>> \o [k \in 1..n |->
                    1 + Cardinality({ j \in 1..n :
                            \/ rows[j][col] > rows[k][col]
                            \/ rows[j][col] = rows[k][col] /\ j < k })]
    IN  [p \in 1..n |-> rows[CHOOSE k \in 1..n : place[k] = p]]

\* Array.prototype.sort((a, b) => b.created_at.localeCompare(a.created_at)):
\* the sort is stable, so rows of one second keep their order in the array
sortByCreatedAtDesc(rows) == StableSortDesc(rows, "created_at")

\* the filter of getNotes with the entity_type comparison left out
MatchesEntity_idOnly(n, entityType, entityId) == n.entity_id = entityId

MatchesEntity(n, entityType, entityId) ==
    n.entity_type = entityType /\ n.entity_id = entityId

getNotes(d, entityType, entityId) ==
    sortByCreatedAtDesc(
        SelectSeq(d.notes, LAMBDA n : MatchesEntity(n, entityType, entityId)))

\* Array.prototype.findIndex, 1-based, 0 for -1
findIndex(notes, noteId) ==
    IF \E k \in 1..Len(notes) : notes[k].id = noteId
    THEN CHOOSE k \in 1..Len(notes) :
            /\ notes[k].id = noteId
            /\ \A j \in 1..(k - 1) : notes[j].id # noteId
    ELSE 0

\* deleteNote without its save(): the file keeps the deleted note
deleteNote_noSave(d, f, noteId) ==
    LET idx == findIndex(d.notes, noteId)
    IN  IF idx = 0
        THEN [data |-> d, file |-> f, ret |-> FALSE]
        ELSE [data |-> [d EXCEPT !.notes = SubSeq(d.notes, 1, idx - 1)
                                           \o SubSeq(d.notes, idx + 1, Len(d.notes))],
              file |-> f, ret |-> TRUE]

\* deleteNote without its `idx === -1` return: splice(-1, 1) drops the last note
deleteNote_noGuard(d, f, noteId) ==
    LET idx == IF findIndex(d.notes, noteId) = 0 THEN Len(d.notes)
               ELSE findIndex(d.notes, noteId)
        d2 == [d EXCEPT !.notes = SubSeq(d.notes, 1, idx - 1)
                                  \o SubSeq(d.notes, idx + 1, Len(d.notes))]
    IN  [data |-> d2, file |-> Stringify(d2), ret |-> TRUE]

\* the store, the file and the answer after deleteNote; f is the file before
deleteNote(d, f, noteId) ==
    LET idx == findIndex(d.notes, noteId)
    IN  IF idx = 0
        THEN [data |-> d, file |-> f, ret |-> FALSE]
        ELSE LET d2 == [d EXCEPT !.notes =
                           SubSeq(d.notes, 1, idx - 1)
                           \o SubSeq(d.notes, idx + 1, Len(d.notes))]
             IN  [data |-> d2, file |-> save(d2), ret |-> TRUE]

\* deleteNote when writeFileSync throws: the splice has run, save() throws.
\* With no such id there is no write and the answer is false.
deleteNoteWriteFails(d, f, noteId, left) ==
    LET idx == findIndex(d.notes, noteId)
    IN  IF idx = 0
        THEN [data |-> d, file |-> f, threw |-> FALSE, ret |-> FALSE]
        ELSE [data |-> [d EXCEPT !.notes = SubSeq(d.notes, 1, idx - 1)
                                           \o SubSeq(d.notes, idx + 1, Len(d.notes))],
              file |-> left, threw |-> TRUE, ret |-> NoData]

SEARCH_LIMIT == 50

\* the filter of searchNotes with an early `if (!query) return []`
MatchesQuery_nonEmpty(n, query) ==
    query # <<>> /\ includes(toLowerCase(n.note), toLowerCase(query))

\* searchNotes answering with the lower-cased texts it compared
searchNotes_lowered(d, query) ==
    LET hits == StableSortDesc(
                    SelectSeq(d.notes, LAMBDA n :
                        includes(toLowerCase(n.note), toLowerCase(query))),
                    "created_at")
        cut == SubSeq(hits, 1, IF Len(hits) < 50 THEN Len(hits) ELSE 50)
    IN  [k \in 1..Len(cut) |-> [cut[k] EXCEPT !.note = toLowerCase(@)]]

MatchesQuery(n, query) == includes(toLowerCase(n.note), toLowerCase(query))

searchNotes(d, query) ==
    LET hits == sortByCreatedAtDesc(
                    SelectSeq(d.notes, LAMBDA n : MatchesQuery(n, query)))
    IN  SubSeq(hits, 1, IF Len(hits) < SEARCH_LIMIT THEN Len(hits) ELSE SEARCH_LIMIT)

----------------------------------------------------------------------------
(* SQLite backend *)

SqlRow(id, entityType, entityId, note, t) ==
    [id |-> id, entity_type |-> entityType, entity_id |-> entityId,
     note |-> note, created_at |-> t, updated_at |-> t]

RowIds(rows) == { rows[k].id : k \in 1..Len(rows) }

MaxOf(S) == IF S = {} THEN 0 ELSE CHOOSE m \in S : \A x \in S : x <= m

\* notes.db before the table is created.  seq is the notes row of
\* sqlite_sequence, rows the table in rowid order.
NoDb == [created |-> FALSE, seq |-> 0, rows |-> <<>>]

\* new Database(DB_PATH) and CREATE TABLE IF NOT EXISTS: the database after
\* initNotesDb found the database f
sqlite_initNotesDb(f) == [f EXCEPT !.created = TRUE]

\* INTEGER PRIMARY KEY AUTOINCREMENT: one more than the largest rowid the
\* table ever held
NextRowid(b) == MaxOf(RowIds(b.rows) \cup {b.seq}) + 1

\* the database and the row after addNote; the CHECK on entity_type makes
\* the INSERT throw and leaves the database as it was
sqlite_addNote(b, entityType, entityId, note, t) ==
    IF entityType \notin EntityType
    THEN [db |-> b, threw |-> TRUE, row |-> NoData]
    ELSE LET row == SqlRow(NextRowid(b), entityType, entityId, note, Timestamp(t))
         IN  [db |-> [b EXCEPT !.seq = row.id, !.rows = Append(b.rows, row)],
              threw |-> FALSE, row |-> row]

\* addNote and deleteNote when the database cannot be written: the statement
\* throws (SQLITE_FULL, SQLITE_IOERR) and the transaction is rolled back
sqlite_writeFails(b) == [db |-> b, threw |-> TRUE]

\* the orders in seqs with the rows at the places G arranged in every way
Rearranged(seqs, G) ==
    { [k \in 1..Len(s) |-> IF k \in G THEN s[f[k]] ELSE s[k]] :
        s \in seqs, f \in Permutations(G) }

RECURSIVE Shuffled(_, _, _, _)
Shuffled(seqs, base, col, values) ==
    IF values = {} THEN seqs
    ELSE LET v == CHOOSE x \in values : TRUE
             G == { k \in 1..Len(base) : base[k][col] = v }
         IN  Shuffled(Rearranged(seqs, G), base, col, values \ {v})

\* ORDER BY col DESC: every order of rows in which col does not increase;
\* SQL leaves the order of rows with equal col open
OrderByDesc(rows, col) ==
    LET base == StableSortDesc(rows, col)
        tied == { base[k][col] : k \in { j \in 1..Len(base) :
                      \E i \in 1..Len(base) : i # j /\ base[i][col] = base[j][col] } }
    IN  Shuffled({base}, base, col, tied)

\* the answers getNotes may give
sqlite_getNotes(b, entityType, entityId) ==
    OrderByDesc(SelectSeq(b.rows, LAMBDA r : MatchesEntity(r, entityType, entityId)),
                "created_at")

\* the database and the answer after deleteNote
sqlite_deleteNote(b, noteId) ==
    LET kept == SelectSeq(b.rows, LAMBDA r : r.id # noteId)
    IN  [db |-> [b EXCEPT !.rows = kept], ret |-> Len(b.rows) - Len(kept) > 0]

\* note LIKE '%' || query || '%'
LikeQuery(r, query) == Like(r.note, <<"%">> \o query \o <<"%">>)

\* the answers searchNotes may give
sqlite_searchNotes(b, query) ==
    { SubSeq(o, 1, IF Len(o) < SEARCH_LIMIT THEN Len(o) ELSE SEARCH_LIMIT) :
        o \in OrderByDesc(SelectSeq(b.rows, LAMBDA r : LikeQuery(r, query)),
                          "updated_at") }

----------------------------------------------------------------------------
(* The note tools: the zod schema of each tool, then its handler *)

None == <<>>

Answer(tool, outcome, args, json, sql) ==
    [tool |-> tool, outcome |-> outcome, args |-> args, json |-> json, sql |-> sql]

\* the schema of flickr_add_note with note: z.string()
AddNoteSchema_noMin(entityType, entityId, note) == entityType \in EntityType

\* entity_type: z.enum(["photo", "album", "group"]), entity_id: z.string(),
\* note: z.string().min(1)
AddNoteSchema(entityType, entityId, note) ==
    entityType \in EntityType /\ Len(note) >= 1

\* entity_type: z.enum([...]), entity_id: z.string()
GetNotesSchema(entityType, entityId) == entityType \in EntityType

\* note_id: z.number().int()
DeleteNoteSchema(noteId) == noteId \in Int

\* query: z.string().min(1)
SearchNotesSchema(query) == Len(query) >= 1

Abstract(id, entityType, entityId, note, ord, createdAt) ==
    [id |-> id, entity_type |-> entityType, entity_id |-> entityId,
     note |-> note, ord |-> ord, created_at |-> createdAt]

NoCalls(id) == [id |-> id, first |-> <<>>, later |-> {}]

Found(d, f, b) == [data |-> d, file |-> f, db |-> b]

\* the NSID validateCredentials returned
UserId == "me"

\* main's position: "off" (no process), "validating" (initFlickrClient waits
\* for validateCredentials), "rejected" (initFlickrClient was rejected and
\* main's catch has not run yet), "up" (the transport is connected) and
\* "exit1" (process.exit(1)); flickr is _flickr !== null, userId is _userId
\* with "" for null, tools says that the register...Tools calls were made
Proc(main, flickr, userId, tools) ==
    [main |-> main, flickr |-> flickr, userId |-> userId, tools |-> tools]

NoProc == Proc("off", FALSE, "", FALSE)
UpProc == Proc("up", TRUE, UserId, TRUE)
Exit1Proc == Proc("exit1", FALSE, "", FALSE)

\* the setup script is not running
NoSetup ==
    [promise |-> "none", value |-> "", server |-> "none", timer |-> "none",
     status |-> 0, log |-> <<>>]

Init ==
    /\ running = FALSE
    /\ now = 0
    /\ data = NoData
    /\ file = NoFile
    /\ db = NoDb
    /\ res = Answer("none", "ok", None, None, None)
    /\ pre = Found(NoData, NoFile, NoDb)
    /\ seeded = 0
    /\ returned = <<>>
    /\ live = {}
    /\ delLog = <<>>
    /\ watch = "idle"
    /\ fault = "none"
    /\ calls = <<>>
    /\ proc = NoProc
    /\ oauth = NoSetup

\* the process starts: main runs initNotesDb before it registers the tools
\* when initNotesDb throws, main logs "startup failed" and exits with 1
Start ==
    /\ ~running
    /\ IF initNotesDb(file).threw
       THEN /\ res' = Answer("start", "failed", None, None, None)
            /\ proc' = Exit1Proc
            /\ UNCHANGED <<running, data, file, db, watch>>
       ELSE /\ running' = TRUE
            /\ proc' = UpProc
            /\ data' = initNotesDb(file).data
            /\ file' = initNotesDb(file).file
            /\ db' = sqlite_initNotesDb(db)
            /\ res' = Answer("start", "ok", None, None, None)
            /\ watch' = IF watch = "deleted" THEN "reloaded" ELSE watch
    /\ UNCHANGED <<now, pre, seeded, returned, live, delLog, fault, calls, oauth>>

\* the process ends; the module variable is gone, the files stay
Exit ==
    /\ running
    /\ running' = FALSE
    /\ data' = NoData
    /\ res' = Answer("exit", "ok", None, None, None)
    /\ proc' = NoProc
    /\ UNCHANGED <<now, file, db, pre, seeded, returned, live, delLog, watch, fault, calls,
                   oauth>>

Tick ==
    /\ now < 2 * seeded + MaxClock
    /\ now' = now + 1
    /\ UNCHANGED <<running, data, file, db, res, pre, seeded, returned, live, delLog, watch,
                   fault, calls, proc, oauth>>

\* flickr_add_note posting the note to Flickr as a comment as well
flickr_add_note_posted(entityType, entityId, note) ==
    /\ running
    /\ IF ~AddNoteSchema(entityType, entityId, note)
       THEN /\ res' = Answer("flickr_add_note", "invalid_params",
                             <<entityType, entityId, note>>, None, None)
            /\ UNCHANGED <<data, file, db, returned, live, delLog, watch>>
       ELSE /\ Len(returned) < seeded + MaxAdds
            /\ LET j == addNote(data, entityType, entityId, note, now)
                   q == sqlite_addNote(db, entityType, entityId, note, now)
               IN  /\ data' = j.data
                   /\ file' = j.file
                   /\ db' = q.db
                   /\ res' = Answer("flickr_add_note", "ok",
                                    <<entityType, entityId, note>>, j.row, q.row)
                   /\ returned' = Append(returned, [json |-> j.row.id, sql |-> q.row.id])
                   /\ live' = live \cup { Abstract(j.row.id, entityType, entityId,
                                                   note, Len(returned) + 1,
                                                   j.row.created_at) }
                   /\ delLog' = Append(delLog, NoCalls(j.row.id))
                   /\ watch' = IF watch = "reloaded" THEN "added" ELSE "idle"
    /\ pre' = Found(data, file, db)
    /\ fault' = "none"
    /\ UNCHANGED <<proc, oauth>>
    /\ calls' = <<[method |-> "flickr.photos.comments.addComment",
                  params |-> [photo_id |-> entityId, comment_text |-> note],
                  answer |-> [ok |-> TRUE]]>>
    /\ UNCHANGED <<running, now, seeded>>

flickr_add_note(entityType, entityId, note) ==
    /\ running
    /\ IF ~AddNoteSchema(entityType, entityId, note)
       THEN /\ res' = Answer("flickr_add_note", "invalid_params",
                             <<entityType, entityId, note>>, None, None)
            /\ UNCHANGED <<data, file, db, returned, live, delLog, watch>>
       ELSE /\ Len(returned) < seeded + MaxAdds
            /\ LET j == addNote(data, entityType, entityId, note, now)
                   q == sqlite_addNote(db, entityType, entityId, note, now)
               IN  /\ data' = j.data
                   /\ file' = j.file
                   /\ db' = q.db
                   /\ res' = Answer("flickr_add_note", "ok",
                                    <<entityType, entityId, note>>, j.row, q.row)
                   /\ returned' = Append(returned, [json |-> j.row.id, sql |-> q.row.id])
                   /\ live' = live \cup { Abstract(j.row.id, entityType, entityId,
                                                   note, Len(returned) + 1,
                                                   j.row.created_at) }
                   /\ delLog' = Append(delLog, NoCalls(j.row.id))
                   /\ watch' = IF watch = "reloaded" THEN "added" ELSE "idle"
    /\ pre' = Found(data, file, db)
    /\ fault' = "none"
    /\ UNCHANGED <<proc, oauth>>
    /\ calls' = <<>>
    /\ UNCHANGED <<running, now, seeded>>

flickr_get_notes(entityType, entityId) ==
    /\ running
    /\ IF ~GetNotesSchema(entityType, entityId)
       THEN res' = Answer("flickr_get_notes", "invalid_params",
                          <<entityType, entityId>>, None, None)
       ELSE \E o \in sqlite_getNotes(db, entityType, entityId) :
               res' = Answer("flickr_get_notes", "ok", <<entityType, entityId>>,
                             getNotes(data, entityType, entityId), o)
    /\ pre' = Found(data, file, db)
    /\ fault' = "none"
    /\ UNCHANGED <<proc, oauth>>
    /\ calls' = <<>>
    /\ UNCHANGED <<running, now, data, file, db, seeded, returned, live, delLog, watch>>

\* the log entries of noteId with one more call: the answer of the first
\* call, and the answers any later call gave
Logged(log, noteId, jsonRet, sqlRet) ==
    [k \in 1..Len(log) |->
        IF log[k].id # noteId THEN log[k]
        ELSE IF log[k].first = <<>>
             THEN [log[k] EXCEPT !.first = <<jsonRet, sqlRet>>]
        ELSE [log[k] EXCEPT !.later = @ \cup {jsonRet, sqlRet}]]

flickr_delete_note(noteId) ==
    /\ running
    /\ DeleteNoteSchema(noteId)
    /\ LET j == deleteNote(data, file, noteId)
           q == sqlite_deleteNote(db, noteId)
       IN  /\ data' = j.data
           /\ file' = j.file
           /\ db' = q.db
           /\ res' = Answer("flickr_delete_note", IF j.ret THEN "ok" ELSE "not_found",
                            <<noteId>>, j.ret, q.ret)
           /\ live' = IF j.ret THEN { a \in live : a.id # noteId } ELSE live
           /\ delLog' = Logged(delLog, noteId, j.ret, q.ret)
           /\ watch' = IF j.ret /\ returned # <<>> /\ noteId = Last(returned).json
                       THEN "deleted" ELSE watch
    /\ pre' = Found(data, file, db)
    /\ fault' = "none"
    /\ UNCHANGED <<proc, oauth>>
    /\ calls' = <<>>
    /\ UNCHANGED <<running, now, seeded, returned>>

flickr_search_notes(query) ==
    /\ running
    /\ IF ~SearchNotesSchema(query)
       THEN res' = Answer("flickr_search_notes", "invalid_params", <<query>>, None, None)
       ELSE \E o \in sqlite_searchNotes(db, query) :
               res' = Answer("flickr_search_notes", "ok", <<query>>,
                             searchNotes(data, query), o)
    /\ pre' = Found(data, file, db)
    /\ fault' = "none"
    /\ UNCHANGED <<proc, oauth>>
    /\ calls' = <<>>
    /\ UNCHANGED <<running, now, data, file, db, seeded, returned, live, delLog, watch>>

Next ==
    \/ Start
    \/ Exit
    \/ Tick
    \/ \E a \in AddInputs : flickr_add_note(a[1], a[2], a[3])
    \/ \E g \in GetInputs : flickr_get_notes(g[1], g[2])
    \/ \E k \in NoteIdInputs : flickr_delete_note(k)
    \/ \E q \in QueryInputs : flickr_search_notes(q)

Spec == Init /\ [][Next]_vars

----------------------------------------------------------------------------
(* A store that already holds about SEARCH_LIMIT notes.  The notes were added
   to photo "1" through flickr_add_note, one a second; with `tie` the first
   two fell into the same second. *)

BulkSizes == {SEARCH_LIMIT - 1, SEARCH_LIMIT + 1}
BulkNote == <<"A", "b">>
BulkAdds == { <<"photo", "1", <<"A", "b">>>>, <<"photo", "1", <<"x">>>> }
BulkNoteIds == {1, 2}
BulkQueries == { <<>>, <<"a">> }

SeedTime(k, tie) == IF tie /\ k <= 2 THEN 3 + k ELSE 2 * k

\* the JSON store after n calls of addNote("photo", "1", BulkNote) on a new store
SeedData(n, tie) ==
    [next_id |-> n + 1,
     notes |-> [k \in 1..n |->
                  NoteRow(k, "photo", "1", BulkNote, Timestamp(SeedTime(k, tie)))]]

\* the SQLite database after the same calls
SeedDb(n, tie) ==
    [created |-> TRUE, seq |-> n,
     rows |-> [k \in 1..n |->
                  SqlRow(k, "photo", "1", BulkNote, Timestamp(SeedTime(k, tie)))]]

BulkInit ==
    \E n \in BulkSizes, tie \in BOOLEAN :
        LET d == SeedData(n, tie)
            b == SeedDb(n, tie)
        IN  /\ running = TRUE
            /\ now = 2 * n
            /\ data = d
            /\ file = save(d)
            /\ db = b
            /\ res = Answer("start", "ok", None, None, None)
            /\ pre = Found(d, save(d), b)
            /\ seeded = n
            /\ returned = [k \in 1..n |-> [json |-> d.notes[k].id, sql |-> b.rows[k].id]]
            /\ live = { Abstract(d.notes[k].id, "photo", "1", BulkNote, k,
                                 d.notes[k].created_at) : k \in 1..n }
            /\ delLog = [k \in 1..n |-> NoCalls(d.notes[k].id)]
            /\ watch = "idle"
            /\ fault = "none"
            /\ calls = <<>>
            /\ proc = UpProc
            /\ oauth = NoSetup

BulkNext ==
    \/ Tick
    \/ \E a \in BulkAdds :
          Len(returned) < seeded + MaxBulkAdds /\ flickr_add_note(a[1], a[2], a[3])
    \/ \E k \in BulkNoteIds : flickr_delete_note(k)
    \/ \E q \in BulkQueries : flickr_search_notes(q)

SpecBulk == BulkInit /\ [][BulkNext]_vars

----------------------------------------------------------------------------
(* The note tools when the environment fails them: a write of the file that
   throws, and a process that is killed inside addNote or deleteNote. *)

MaxFaultNotes == 2

FaultAdds == { <<"photo", "1", <<"A", "b">>>> }
FaultNoteIds == 1..MaxFaultNotes

\* the store operation threw
Threw == [threw |-> TRUE]

\* flickr_add_note while notes.json and notes.db cannot be written
flickr_add_note_writeFails(entityType, entityId, note) ==
    /\ running
    /\ AddNoteSchema(entityType, entityId, note)
    /\ data.next_id <= MaxFaultNotes
    /\ db.seq < MaxFaultNotes
    /\ \E left \in LeftBehind(file, Stringify(addNote(data, entityType, entityId,
                                                      note, now).data)) :
          LET j == addNoteWriteFails(data, entityType, entityId, note, now, left)
              q == sqlite_writeFails(db)
          IN  /\ data' = j.data
              /\ file' = j.file
              /\ db' = q.db
              /\ res' = Answer("flickr_add_note", IF j.threw THEN "error" ELSE "ok",
                               <<entityType, entityId, note>>,
                               IF j.threw THEN Threw ELSE j.row,
                               IF q.threw THEN Threw ELSE None)
    /\ pre' = Found(data, file, db)
    /\ fault' = "write_fails"
    /\ UNCHANGED <<proc, oauth>>
    /\ calls' = <<>>
    /\ UNCHANGED <<running, now, seeded, returned, live, delLog, watch>>

\* flickr_delete_note of a stored note while the files cannot be written
flickr_delete_note_writeFails(noteId) ==
    /\ running
    /\ DeleteNoteSchema(noteId)
    /\ findIndex(data.notes, noteId) # 0
    /\ \E left \in LeftBehind(file, Stringify(deleteNote(data, file, noteId).data)) :
          LET j == deleteNoteWriteFails(data, file, noteId, left)
              q == sqlite_writeFails(db)
          IN  /\ data' = j.data
              /\ file' = j.file
              /\ db' = q.db
              /\ res' = Answer("flickr_delete_note",
                               IF j.threw THEN "error"
                               ELSE IF j.ret THEN "ok" ELSE "not_found",
                               <<noteId>>,
                               IF j.threw THEN Threw ELSE j.ret,
                               IF q.threw THEN Threw ELSE None)
    /\ pre' = Found(data, file, db)
    /\ fault' = "write_fails"
    /\ UNCHANGED <<proc, oauth>>
    /\ calls' = <<>>
    /\ UNCHANGED <<running, now, seeded, returned, live, delLog, watch>>

\* the process is killed inside a store operation that was to write the
\* document j and the database q: the write had not begun, was under way or
\* was done; SQLite commits the statement or does not
Crashed(tool, args, j, q) ==
    /\ \E left \in {file} \cup TornWrites(j) \cup {j} : file' = left
    /\ \E b \in {db, q} : db' = b
    /\ running' = FALSE
    /\ data' = NoData
    /\ res' = Answer(tool, "crashed", args, None, None)
    /\ pre' = Found(data, file, db)
    /\ fault' = "crash"
    /\ proc' = NoProc
    /\ calls' = <<>>
    /\ UNCHANGED <<now, seeded, returned, live, delLog, watch, oauth>>

crash_in_addNote(entityType, entityId, note) ==
    /\ running
    /\ AddNoteSchema(entityType, entityId, note)
    /\ data.next_id <= MaxFaultNotes
    /\ db.seq < MaxFaultNotes
    /\ Crashed("flickr_add_note", <<entityType, entityId, note>>,
               addNote(data, entityType, entityId, note, now).file,
               sqlite_addNote(db, entityType, entityId, note, now).db)

crash_in_deleteNote(noteId) ==
    /\ running
    /\ DeleteNoteSchema(noteId)
    /\ findIndex(data.notes, noteId) # 0
    /\ Crashed("flickr_delete_note", <<noteId>>,
               deleteNote(data, file, noteId).file,
               sqlite_deleteNote(db, noteId).db)

FaultNext ==
    \/ Start
    \/ Exit
    \/ \E a \in FaultAdds :
          /\ running
          /\ data.next_id <= MaxFaultNotes
          /\ db.seq < MaxFaultNotes
          /\ flickr_add_note(a[1], a[2], a[3])
    \/ \E k \in FaultNoteIds : flickr_delete_note(k)
    \/ \E a \in FaultAdds : flickr_add_note_writeFails(a[1], a[2], a[3])
    \/ \E k \in FaultNoteIds : flickr_delete_note_writeFails(k)
    \/ \E a \in FaultAdds : crash_in_addNote(a[1], a[2], a[3])
    \/ \E k \in FaultNoteIds : crash_in_deleteNote(k)

SpecFault == Init /\ [][FaultNext]_vars

----------------------------------------------------------------------------
(* The Flickr tools.  A tool call is one step: the Flickr API answers each
   call of the handler with a failure or a result, the handler builds its
   answer.  calls holds the calls in the order the handler issued them, each
   with the answer it got. *)

MaxBatch == 2

\* flickr(method, params) and what it resolved to or was rejected with
Call(method, params, answer) == [method |-> method, params |-> params, answer |-> answer]

\* a rejected call: err.code (0 when the error has none) and err.message
Failure(code, message) == [ok |-> FALSE, code |-> code, message |-> message]

\* the ways a call is rejected: Flickr error 1, or a network error without code
Failures == { Failure(1, "Photo not found"), Failure(0, "fetch failed") }

\* the codes FLICKR_ERROR_MESSAGES has a text for
FLICKR_ERROR_CODES == {1, 2, 3, 5, 96, 98, 99}

formatFlickrError(err) ==
    IF err.code \in FLICKR_ERROR_CODES
    THEN <<"FLICKR_ERROR_MESSAGES", err.code>>
    ELSE <<"Flickr API error: ", err.message>>

\* one part of a text that speaks of several photos, days or albums; error
\* says that the part is an error text
Part(about, value, error) == [about |-> about, value |-> value, error |-> error]

\* one element of the content array of an answer.  type is "text" or "image",
\* kind names the sentence of the handler, about the photo, group or day it
\* speaks of, detail what it says, error whether it says something failed
Item(type, kind, about, detail, error) ==
    [type |-> type, kind |-> kind, about |-> about, detail |-> detail, error |-> error]

\* { content, isError }
Reply(tool, isError, args, content) ==
    [tool |-> tool, outcome |-> IF isError THEN "error" ELSE "ok", args |-> args,
     content |-> content]

\* catch (err) { return { content: [text formatFlickrError(err)], isError: true } }
Caught(tool, args, err) ==
    Reply(tool, TRUE, args,
          <<Item("text", "flickr_error", None, formatFlickrError(err), TRUE)>>)

\* the handler returned: its calls and its answer; the note store is not touched
Returned(cs, reply) ==
    /\ calls' = cs
    /\ res' = reply
    /\ pre' = Found(data, file, db)
    /\ fault' = "none"
    /\ UNCHANGED <<proc, oauth>>
    /\ UNCHANGED <<running, now, data, file, db, seeded, returned, live, delLog, watch>>

FlickrTools ==
    { "flickr_add_to_group", "flickr_join_group", "flickr_view_photo",
      "flickr_view_thumbs", "flickr_get_activity", "flickr_get_photo_referrers",
      "flickr_get_photo_contexts", "flickr_list_albums",
      "flickr_set_metadata",
      "flickr_get_stats" }

NoteTools ==
    { "flickr_add_note", "flickr_get_notes", "flickr_delete_note", "flickr_search_notes" }

\* the server is up and has sent the answer of the tool call before
Ready == running /\ res.tool \notin FlickrTools \cup NoteTools

\* the answer of a tool call is written to the transport
Respond ==
    /\ res.tool \in FlickrTools \cup NoteTools
    /\ res' = Answer("respond", "ok", None, None, None)
    /\ calls' = <<>>
    /\ UNCHANGED <<running, now, data, file, db, pre, seeded, returned, live, delLog,
                   watch, fault, proc, oauth>>

PhotoIds == {"p1", "p2"}
GroupIds == {"g1"}

\* info.photo.visibility of flickr.photos.getInfo: absent, or ispublic 0 or 1
Visibilities == { <<>>, <<0>>, <<1>> }

\* info.photo.visibility?.ispublic === 1
IsPublic(visibility) == visibility = <<1>>

\* what flickr.photos.getInfo may answer
GetInfoAnswers ==
    Failures \cup { [ok |-> TRUE, visibility |-> v, title |-> "T",
                     photopage |-> "https://www.flickr.com/photos/me/p"] :
                       v \in Visibilities }

\* what a call may answer that returns nothing the handler reads
PlainAnswers == Failures \cup { [ok |-> TRUE] }

\* flickr_add_to_group with the visibility test left out
flickr_add_to_group_unchecked(photo_id, group_id) ==
    /\ Ready
    /\ \E info \in GetInfoAnswers, added \in PlainAnswers :
          LET args == <<photo_id, group_id>>
              getInfo == Call("flickr.photos.getInfo", [photo_id |-> photo_id], info)
              add == Call("flickr.groups.pools.add",
                          [photo_id |-> photo_id, group_id |-> group_id], added)
          IN  IF ~info.ok
              THEN Returned(<<getInfo>>, Caught("flickr_add_to_group", args, info))
              ELSE IF ~added.ok
              THEN Returned(<<getInfo, add>>, Caught("flickr_add_to_group", args, added))
              ELSE Returned(<<getInfo, add>>,
                       Reply("flickr_add_to_group", FALSE, args,
                             <<Item("text", "submitted", photo_id, group_id, FALSE)>>))

flickr_add_to_group(photo_id, group_id) ==
    /\ Ready
    /\ \E info \in GetInfoAnswers, added \in PlainAnswers :
          LET args == <<photo_id, group_id>>
              getInfo == Call("flickr.photos.getInfo", [photo_id |-> photo_id], info)
              add == Call("flickr.groups.pools.add",
                          [photo_id |-> photo_id, group_id |-> group_id], added)
          IN  IF ~info.ok
              THEN Returned(<<getInfo>>, Caught("flickr_add_to_group", args, info))
              ELSE IF ~IsPublic(info.visibility)
              THEN Returned(<<getInfo>>,
                       Reply("flickr_add_to_group", TRUE, args,
                             <<Item("text", "not_public", photo_id, None, TRUE)>>))
              ELSE IF ~added.ok
              THEN Returned(<<getInfo, add>>, Caught("flickr_add_to_group", args, added))
              ELSE Returned(<<getInfo, add>>,
                       Reply("flickr_add_to_group", FALSE, args,
                             <<Item("text", "submitted", photo_id, group_id, FALSE)>>))

\* group.rules of flickr.groups.getInfo: undefined, a string, or { _content }
RulesValues ==
    { [kind |-> "undefined", text |-> <<>>],
      [kind |-> "string", text |-> <<>>], [kind |-> "string", text |-> <<"R">>],
      [kind |-> "object", text |-> <<>>], [kind |-> "object", text |-> <<" ">>] }

\* extractContent(value): "" for a falsy value, the string itself, or _content
extractContent(value) ==
    IF value.kind = "undefined" \/ (value.kind = "string" /\ value.text = <<>>)
    THEN <<>>
    ELSE value.text

GroupInfoAnswers == Failures \cup { [ok |-> TRUE, rules |-> r] : r \in RulesValues }

\* flickr_join_group sending accept_rules whenever the caller set the flag
flickr_join_group_flagOnly(group_id, agreed) ==
    /\ Ready
    /\ \E info \in GroupInfoAnswers, joined \in PlainAnswers :
          LET args == <<group_id, agreed>>
              getInfo == Call("flickr.groups.getInfo", [group_id |-> group_id], info)
              rules == extractContent(info.rules)
              hasRules == Len(rules) > 0
              joinParams == IF agreed
                            THEN [group_id |-> group_id, accept_rules |-> "1"]
                            ELSE [group_id |-> group_id]
              join == Call("flickr.groups.join", joinParams, joined)
          IN  IF ~info.ok
              THEN Returned(<<getInfo>>, Caught("flickr_join_group", args, info))
              ELSE IF hasRules /\ ~agreed
              THEN Returned(<<getInfo>>,
                       Reply("flickr_join_group", FALSE, args,
                             <<Item("text", "rules", group_id, rules, FALSE)>>))
              ELSE IF ~joined.ok
              THEN Returned(<<getInfo, join>>, Caught("flickr_join_group", args, joined))
              ELSE Returned(<<getInfo, join>>,
                       Reply("flickr_join_group", FALSE, args,
                             <<Item("text", "joined", group_id, None, FALSE)>>))

flickr_join_group(group_id, agreed) ==
    /\ Ready
    /\ \E info \in GroupInfoAnswers, joined \in PlainAnswers :
          LET args == <<group_id, agreed>>
              getInfo == Call("flickr.groups.getInfo", [group_id |-> group_id], info)
              rules == extractContent(info.rules)
              hasRules == Len(rules) > 0
              joinParams == IF hasRules
                            THEN [group_id |-> group_id, accept_rules |-> "1"]
                            ELSE [group_id |-> group_id]
              join == Call("flickr.groups.join", joinParams, joined)
          IN  IF ~info.ok
              THEN Returned(<<getInfo>>, Caught("flickr_join_group", args, info))
              ELSE IF hasRules /\ ~agreed
              THEN Returned(<<getInfo>>,
                       Reply("flickr_join_group", FALSE, args,
                             <<Item("text", "rules", group_id, rules, FALSE)>>))
              ELSE IF ~joined.ok
              THEN Returned(<<getInfo, join>>, Caught("flickr_join_group", args, joined))
              ELSE Returned(<<getInfo, join>>,
                       Reply("flickr_join_group", FALSE, args,
                             <<Item("text", "joined", group_id, None, FALSE)>>))

\* the elements of a sequence of sequences, in order
RECURSIVE Flatten(_)
Flatten(ss) == IF ss = <<>> THEN <<>> ELSE Head(ss) \o Flatten(Tail(ss))

MAX_IMAGE_BYTES == 700000

IMAGE_SIZE_PRIORITY == <<"Large", "Medium 800", "Medium 640", "Medium">>

Null == [null |-> TRUE]

\* what fetch(size.source) may do: answer with a body of byteLength bytes,
\* answer with a status that is not ok, or throw
Sources ==
    { [fetch |-> "ok", byteLength |-> MAX_IMAGE_BYTES],
      [fetch |-> "ok", byteLength |-> MAX_IMAGE_BYTES + 1],
      [fetch |-> "http_error", byteLength |-> 0],
      [fetch |-> "throws", byteLength |-> 0] }

Size(label, source) == [label |-> label, source |-> source]

FetchedImage(size) == [label |-> size.label, byteLength |-> size.source.byteLength]

\* tryFetchImage without the comparison with MAX_IMAGE_BYTES
tryFetchImage_noCap(size) ==
    IF size.source.fetch # "ok" THEN Null ELSE FetchedImage(size)

tryFetchImage(size) ==
    IF size.source.fetch # "ok" THEN Null
    ELSE IF size.source.byteLength > MAX_IMAGE_BYTES THEN Null
    ELSE FetchedImage(size)

\* sizeMap.get(label) after sizeMap.set(s.label, s) for every s of sizes: the
\* last size with the label, or Null for undefined
sizeMapGet(sizes, label) ==
    IF \E k \in 1..Len(sizes) : sizes[k].label = label
    THEN sizes[CHOOSE k \in 1..Len(sizes) :
                   /\ sizes[k].label = label
                   /\ \A j \in (k + 1)..Len(sizes) : sizes[j].label # label]
    ELSE Null

\* the loop of fetchPhoto from the k-th label of IMAGE_SIZE_PRIORITY on
RECURSIVE fetchFrom(_, _)
fetchFrom(sizes, k) ==
    IF k > Len(IMAGE_SIZE_PRIORITY) THEN Null
    ELSE LET size == sizeMapGet(sizes, IMAGE_SIZE_PRIORITY[k])
         IN  IF size = Null THEN fetchFrom(sizes, k + 1)
             ELSE IF tryFetchImage(size) # Null THEN tryFetchImage(size)
             ELSE fetchFrom(sizes, k + 1)

fetchPhoto(sizes) == fetchFrom(sizes, 1)

\* fetchPhotoMedium: as fetchPhoto with IMAGE_SIZE_PRIORITY_MEDIUM and
\* MAX_IMAGE_BYTES_MEDIUM, which constants.ts does not hold: nothing, or any
\* size of the list that can be fetched
fetchPhotoMedium(sizes) ==
    {Null} \cup { FetchedImage(sizes[k]) :
                    k \in { j \in 1..Len(sizes) : sizes[j].source.fetch = "ok" } }

\* the labels of a sizes list, smallest first as flickr.photos.getSizes gives them
SizeLabels == <<"Square", "Medium", "Medium 640", "Medium 800", "Large">>

\* the sizes lists flickr.photos.getSizes may answer with: a Square, and each
\* label of IMAGE_SIZE_PRIORITY absent or with any of Sources
SizeLists ==
    { LET present == SelectSeq(SizeLabels, LAMBDA l : l = "Square" \/ c[l] # Null)
      IN  [k \in 1..Len(present) |->
              Size(present[k],
                   IF present[k] = "Square"
                   THEN [fetch |-> "ok", byteLength |-> 1]
                   ELSE c[present[k]])] :
        c \in [Range(IMAGE_SIZE_PRIORITY) -> Sources \cup {Null}] }

\* a few of SizeLists, for calls with several photos
SizeListsBatch ==
    { l \in SizeLists : /\ Len(l) <= 2
                        /\ \A k \in 1..Len(l) : l[k].label \in {"Square", "Medium"} }

GetSizesAnswers(lists) == Failures \cup { [ok |-> TRUE, sizes |-> l] : l \in lists }

\* a photo that is public, or a failure
PublicInfoAnswers == { a \in GetInfoAnswers : a.ok => IsPublic(a.visibility) }

\* what Flickr and the image host may do to one id of flickr_view_photo:
\* the answers of getInfo and getSizes, which of two rejections came first,
\* and in a batch the image fetchPhotoMedium got
ViewAnswers(isBatch) ==
    { a \in [info : PublicInfoAnswers,
             sizes : GetSizesAnswers(IF isBatch THEN SizeListsBatch ELSE SizeLists),
             first : {"info", "sizes"},
             medium : IF isBatch THEN UNION { fetchPhotoMedium(l) : l \in SizeListsBatch }
                      ELSE {Null}] :
        /\ (a.info.ok \/ a.sizes.ok) => a.first = "info"
        /\ a.medium # Null =>
              (a.info.ok /\ a.sizes.ok /\ a.medium \in fetchPhotoMedium(a.sizes.sizes)) }

\* err.message || String(err)
ErrorText(err) == err.message

\* one id of flickr_view_photo: its two parallel calls and its content items
ViewOne(id, a, isBatch) ==
    LET cs == <<Call("flickr.photos.getInfo", [photo_id |-> id], a.info),
                Call("flickr.photos.getSizes", [photo_id |-> id], a.sizes)>>
        err == IF ~a.info.ok /\ (a.sizes.ok \/ a.first = "info") THEN a.info ELSE a.sizes
        image == IF isBatch THEN a.medium ELSE fetchPhoto(a.sizes.sizes)
    IN  IF ~a.info.ok \/ ~a.sizes.ok
        THEN [calls |-> cs,
              items |-> <<Item("text", "photo_error", id, ErrorText(err), TRUE)>>]
        ELSE IF image # Null
        THEN [calls |-> cs,
              items |-> <<Item("image", IF isBatch THEN "image_medium" ELSE "image_large",
                               id, image, FALSE),
                          Item("text", "metadata_size_shown", id, image.label, FALSE)>>]
        ELSE [calls |-> cs,
              items |-> <<Item("text", "metadata_view_at", id, a.info.photopage, FALSE)>>]

\* photo_id: a string or an array of 1 to 10 strings
ViewInputs == { SubSeq(<<"p1", "p2", "p3">>, 1, n) : n \in 1..MaxBatch }

\* the orders in which n calls made side by side may settle
CompletionOrders(n) == { f \in [1..n -> 1..n] : \A i, j \in 1..n : f[i] = f[j] => i = j }

\* an array taking the values as they settle, whatever their index
PromiseAll_asSettled(values, order) == [k \in 1..Len(values) |-> values[order[k]]]

RECURSIVE Settle(_, _, _)
Settle(values, order, filled) ==
    IF order = <<>> THEN filled
    ELSE Settle(values, Tail(order), [filled EXCEPT ![Head(order)] = values[Head(order)]])

\* await Promise.all(ids.map(async (id) => ...)): the value of each promise is
\* stored at the index of its id when the promise settles
PromiseAll(values, order) ==
    Settle(values, order, [k \in 1..Len(values) |-> Null])

\* photo_id of flickr_view_photo: a string, or an array of 1 to 10 strings
ViewPhotoInputs ==
    { [array |-> FALSE, ids |-> <<"p1">>] } \cup { [array |-> TRUE, ids |-> ids] : ids \in ViewInputs }

\* flickr_view_photo taking every array for a batch, also an array of one id
flickr_view_photo_byArray(photo_id) ==
    /\ Ready
    /\ LET ids == photo_id.ids
           isBatch == photo_id.array
       IN  \E as \in [1..Len(ids) -> ViewAnswers(isBatch)],
              order \in CompletionOrders(Len(ids)) :
              LET per == [k \in 1..Len(ids) |-> ViewOne(ids[k], as[k], isBatch)]
                  results == PromiseAll(per, order)
              IN  Returned(Flatten([k \in 1..Len(ids) |-> per[k].calls]),
                           Reply("flickr_view_photo", FALSE, <<photo_id>>,
                                 Flatten([k \in 1..Len(ids) |-> results[k].items])))

\* ids is photo_id when that is an array and [photo_id] when it is a string;
\* isBatch is ids.length > 1
flickr_view_photo(photo_id) ==
    /\ Ready
    /\ LET ids == photo_id.ids
           isBatch == Len(ids) > 1
       IN  \E as \in [1..Len(ids) -> ViewAnswers(isBatch)],
              order \in CompletionOrders(Len(ids)) :
              LET per == [k \in 1..Len(ids) |-> ViewOne(ids[k], as[k], isBatch)]
                  results == PromiseAll(per, order)
              IN  Returned(Flatten([k \in 1..Len(ids) |-> per[k].calls]),
                           Reply("flickr_view_photo", FALSE, <<photo_id>>,
                                 Flatten([k \in 1..Len(ids) |-> results[k].items])))

THUMB_MAX_BYTES == 50000

\* fetchThumbnail(url)
fetchThumbnail(source) ==
    IF source.fetch # "ok" THEN Null
    ELSE IF source.byteLength > THUMB_MAX_BYTES THEN Null
    ELSE [byteLength |-> source.byteLength]

\* sizes.find("Large Square") || sizes.find("Square") || sizes[0]; Null for undefined
SquareOf(sizes) ==
    IF \E k \in 1..Len(sizes) : sizes[k].label = "Large Square"
    THEN sizes[CHOOSE k \in 1..Len(sizes) :
                   /\ sizes[k].label = "Large Square"
                   /\ \A j \in 1..(k - 1) : sizes[j].label # "Large Square"]
    ELSE IF \E k \in 1..Len(sizes) : sizes[k].label = "Square"
    THEN sizes[CHOOSE k \in 1..Len(sizes) :
                   /\ sizes[k].label = "Square"
                   /\ \A j \in 1..(k - 1) : sizes[j].label # "Square"]
    ELSE IF Len(sizes) > 0 THEN sizes[1]
    ELSE Null

\* the sizes lists of the photos flickr_view_thumbs is asked for
ThumbLists ==
    { <<>>,
      <<Size("Square", [fetch |-> "ok", byteLength |-> THUMB_MAX_BYTES])>>,
      <<Size("Square", [fetch |-> "ok", byteLength |-> THUMB_MAX_BYTES + 1])>>,
      <<Size("Thumbnail", [fetch |-> "throws", byteLength |-> 0]),
        Size("Large Square", [fetch |-> "ok", byteLength |-> 1])>> }

TitleAnswers == Failures \cup { [ok |-> TRUE, title |-> "T"] }

\* the answers to the calls of one id; getInfo is not called when getSizes
\* failed, so there is no answer to choose for it
ThumbAnswers ==
    { a \in [sizes : GetSizesAnswers(ThumbLists), info : TitleAnswers] :
        ~a.sizes.ok => a.info = [ok |-> TRUE, title |-> "T"] }

\* one id of flickr_view_thumbs: getSizes, then getInfo when getSizes
\* answered, then the fetch of the thumbnail
ThumbOne(id, a) ==
    LET getSizes == Call("flickr.photos.getSizes", [photo_id |-> id], a.sizes)
        getInfo == Call("flickr.photos.getInfo", [photo_id |-> id], a.info)
        square == SquareOf(a.sizes.sizes)
        thumb == IF square = Null THEN Null ELSE fetchThumbnail(square.source)
        title == Item("text", "thumb_title", id, a.info.title, FALSE)
    IN  IF ~a.sizes.ok
        THEN [first |-> <<getSizes>>, then |-> <<>>,
              items |-> <<Item("text", "thumb_title", id, "(error)", TRUE)>>]
        ELSE IF ~a.info.ok
        THEN [first |-> <<getSizes>>, then |-> <<getInfo>>,
              items |-> <<Item("text", "thumb_title", id, "(error)", TRUE)>>]
        ELSE IF thumb # Null
        THEN [first |-> <<getSizes>>, then |-> <<getInfo>>,
              items |-> <<Item("image", "thumb", id, thumb, FALSE), title>>]
        ELSE [first |-> <<getSizes>>, then |-> <<getInfo>>, items |-> <<title>>]

\* the orders in which the calls of cs may have been issued
Orders(cs) ==
    { [k \in 1..Len(cs) |-> cs[f[k]]] : f \in Permutations(1..Len(cs)) }

\* every getSizes goes out when the handler maps over the ids; each getInfo
\* goes out when its getSizes has answered, in whatever order that happens
flickr_view_thumbs(photo_ids) ==
    /\ Ready
    /\ \E as \in [1..Len(photo_ids) -> ThumbAnswers],
          order \in CompletionOrders(Len(photo_ids)) :
          LET per == [k \in 1..Len(photo_ids) |-> ThumbOne(photo_ids[k], as[k])]
              thumbResults == PromiseAll(per, order)
          IN  \E later \in Orders(Flatten([k \in 1..Len(photo_ids) |-> per[k].then])) :
                 Returned(Flatten([k \in 1..Len(photo_ids) |-> per[k].first]) \o later,
                          Reply("flickr_view_thumbs", FALSE, <<photo_ids>>,
                                Flatten([k \in 1..Len(photo_ids) |-> thumbResults[k].items])))

\* the numDays days that end with date, oldest first; days are numbered
Dates(date, numDays) == [k \in 1..numDays |-> date - numDays + k]

\* totalsRes.stats: the views of the day
TotalViewsAnswers == Failures \cup { [ok |-> TRUE, views |-> v] : v \in {0, 5} }

PopularAnswers == Failures \cup { [ok |-> TRUE, photos |-> ps] : ps \in { <<>>, <<"p1">> } }

RECURSIVE Sum(_)
Sum(ns) == IF ns = <<>> THEN 0 ELSE Head(ns) + Sum(Tail(ns))

\* flickr_get_activity; days is 0 when the caller left it out
flickr_get_activity(date, days) ==
    /\ Ready
    /\ LET numDays == IF days = 0 THEN 1 ELSE days
           args == <<date, days>>
       IN  IF numDays = 1
           THEN \E totals \in TotalViewsAnswers, popular \in PopularAnswers,
                   first \in {"totals", "popular"} :
                   LET cs == <<Call("flickr.stats.getTotalViews", [date |-> date], totals),
                               Call("flickr.stats.getPopularPhotos",
                                    [date |-> date, per_page |-> "10", sort |-> "views"],
                                    popular)>>
                   IN  /\ (totals.ok \/ popular.ok) => first = "totals"
                       /\ IF ~totals.ok /\ (popular.ok \/ first = "totals")
                          THEN Returned(cs, Caught("flickr_get_activity", args, totals))
                          ELSE IF ~popular.ok
                          THEN Returned(cs, Caught("flickr_get_activity", args, popular))
                          ELSE Returned(cs,
                                   Reply("flickr_get_activity", FALSE, args,
                                         <<Item("text", "activity", date,
                                                <<Part(date, totals.views, FALSE),
                                                  Part(date, popular.photos, FALSE)>>,
                                                FALSE)>>))
           ELSE \E as \in [1..numDays -> TotalViewsAnswers] :
                   LET dates == Dates(date, numDays)
                       cs == [k \in 1..numDays |->
                                Call("flickr.stats.getTotalViews", [date |-> dates[k]], as[k])]
                       results == [k \in 1..numDays |->
                                     IF as[k].ok
                                     THEN [date |-> dates[k], views |-> as[k].views,
                                           error |-> Null]
                                     ELSE [date |-> dates[k], views |-> 0,
                                           error |-> ErrorText(as[k])]]
                       total == Sum([k \in 1..numDays |-> results[k].views])
                   IN  Returned(cs,
                           Reply("flickr_get_activity", FALSE, args,
                                 <<Item("text", "trend", date,
                                        [total |-> total,
                                         rows |-> [k \in 1..numDays |->
                                                     Part(results[k].date, results[k].views,
                                                          FALSE)]],
                                        FALSE)>>))

\* a referrer URL: a page of a group, or the search page
Urls == { [kind |-> "group", slug |-> "g1"], [kind |-> "search", slug |-> ""] }

\* normalizeReferrer(url): the key the views are added up under
normalizeReferrer(url) ==
    IF url.kind = "group" THEN <<"group:", url.slug>> ELSE <<"Flickr Search">>

Referrer(url, views) == [url |-> url, views |-> views]

ReferrerAnswers ==
    Failures \cup
    { [ok |-> TRUE, referrer |-> rs] :
        rs \in { <<>>,
                 <<Referrer([kind |-> "search", slug |-> ""], 3)>>,
                 <<Referrer([kind |-> "group", slug |-> "g1"], 2),
                   Referrer([kind |-> "search", slug |-> ""], 1)>> } }

\* sourceViews: one entry for each key, in the order the keys first came up,
\* with the views of the key added up
Aggregate(referrers) ==
    LET n == Len(referrers)
        key == <<>> \o [k \in 1..n |-> normalizeReferrer(referrers[k].url)]
        firsts == SelectSeq([k \in 1..n |-> k],
                            LAMBDA k : \A j \in 1..(k - 1) : key[j] # key[k])
    IN  [e \in 1..Len(firsts) |->
            [key |-> key[firsts[e]],
             views |-> Sum(SelectSeq([k \in 1..n |->
                                        IF key[k] = key[firsts[e]]
                                        THEN referrers[k].views ELSE 0],
                                     LAMBDA v : TRUE))]]

\* res.groups.group of flickr.people.getGroups
MyGroupsAnswers ==
    Failures \cup
    { [ok |-> TRUE, groups |-> gs] : gs \in { <<>>, <<[nsid |-> "g1", name |-> "G"]>> } }

\* res.group.name of flickr.groups.getInfo; "" stands for no name
GroupNameAnswers == Failures \cup { [ok |-> TRUE, name |-> n] : n \in {"", "G"} }

\* flickr_get_photo_referrers; photo_id is "" and days is 0 when left out
flickr_get_photo_referrers(photo_id, date, days) ==
    /\ Ready
    /\ LET numDays == IF days = 0 THEN 1 ELSE days
           args == <<photo_id, date, days>>
           dates == Dates(date, numDays)
       IN  \E as \in [1..numDays -> ReferrerAnswers],
              mine \in MyGroupsAnswers, info \in GroupNameAnswers :
              LET params(d) ==
                      IF photo_id # ""
                      THEN [date |-> d, domain |-> "flickr.com", per_page |-> "100",
                            photo_id |-> photo_id]
                      ELSE [date |-> d, domain |-> "flickr.com", per_page |-> "100"]
                  daily == [k \in 1..numDays |->
                              Call("flickr.stats.getPhotoReferrers", params(dates[k]), as[k])]
                  allReferrers == [k \in 1..numDays |->
                                     IF as[k].ok THEN as[k].referrer ELSE <<>>]
                  sourceViews == Aggregate(Flatten(allReferrers))
                  groupKeys == SelectSeq(sourceViews, LAMBDA e : e.key[1] = "group:")
                  getGroups == Call("flickr.people.getGroups", [user_id |-> UserId], mine)
                  known == IF mine.ok
                           THEN { g.nsid : g \in { mine.groups[k] : k \in 1..Len(mine.groups) } }
                           ELSE {}
                  unknownSlugs == SelectSeq([k \in 1..Len(groupKeys) |-> groupKeys[k].key[2]],
                                            LAMBDA slug : slug \notin known)
                  getInfos == [k \in 1..Len(unknownSlugs) |->
                                 Call("flickr.groups.getInfo",
                                      [group_id |-> unknownSlugs[k]], info)]
                  label(key) ==
                      IF key[1] # "group:" THEN key[1]
                      ELSE IF key[2] \in known THEN "Group: G"
                      ELSE IF info.ok /\ info.name # "" THEN "Group: G"
                      ELSE "Group: g1"
                  sorted == StableSortDesc(sourceViews, "views")
                  totalViews == Sum([k \in 1..Len(sorted) |-> sorted[k].views])
              IN  IF Len(sourceViews) = 0
                  THEN Returned(daily,
                           Reply("flickr_get_photo_referrers", FALSE, args,
                                 <<Item("text", "no_referrer_data", photo_id, dates, FALSE)>>))
                  ELSE Returned(daily \o (IF Len(groupKeys) > 0
                                          THEN <<getGroups>> \o getInfos ELSE <<>>),
                           Reply("flickr_get_photo_referrers", FALSE, args,
                                 <<Item("text", "referrers", photo_id,
                                        [total |-> totalViews,
                                         rows |-> [k \in 1..Len(sorted) |->
                                                     Part(label(sorted[k].key), sorted[k].views,
                                                          FALSE)]],
                                        FALSE)>>))

\* albumRes.photoset of flickr.photosets.getPhotos
AlbumPhotosAnswers ==
    Failures \cup { [ok |-> TRUE, photo |-> ids] : ids \in {<<>>} \cup ViewInputs }

\* the pools and sets of flickr.photos.getAllContexts
ContextsAnswers ==
    Failures \cup
    { [ok |-> TRUE, pool |-> ps, set |-> ss] : ps \in { <<>>, <<"g1">> }, ss \in { <<>>, <<"a1">> } }

\* the handler looking up photo_id when both photo_id and album_id are given
flickr_get_photo_contexts_photoFirst(photo_id, album_id) ==
    /\ Ready
    /\ LET args == <<photo_id, album_id>>
           tool == "flickr_get_photo_contexts"
           lookups(before, ids) ==
               \E as \in [1..Len(ids) -> ContextsAnswers],
                  order \in CompletionOrders(Len(ids)) :
                  LET cs == [k \in 1..Len(ids) |->
                               Call("flickr.photos.getAllContexts", [photo_id |-> ids[k]], as[k])]
                      per == [k \in 1..Len(ids) |->
                                IF as[k].ok
                                THEN Part(ids[k], [pools |-> as[k].pool, albums |-> as[k].set],
                                          FALSE)
                                ELSE Part(ids[k], ErrorText(as[k]), TRUE)]
                      results == PromiseAll(per, order)
                  IN  Returned(before \o cs,
                          Reply(tool, FALSE, args,
                                <<Item("text", "contexts", album_id, results, FALSE)>>))
       IN  IF photo_id = <<>> /\ album_id = ""
           THEN Returned(<<>>, Reply(tool, TRUE, args,
                                     <<Item("text", "usage", "", "", TRUE)>>))
           ELSE IF album_id # "" /\ photo_id = <<>>
           THEN \E album \in AlbumPhotosAnswers :
                   LET getPhotos == Call("flickr.photosets.getPhotos",
                                         [photoset_id |-> album_id, user_id |-> UserId,
                                          per_page |-> "500", page |-> "1"], album)
                   IN  IF ~album.ok
                       THEN Returned(<<getPhotos>>, Caught(tool, args, album))
                       ELSE IF Len(album.photo) = 0
                       THEN Returned(<<getPhotos>>,
                                Reply(tool, FALSE, args,
                                      <<Item("text", "album_empty", album_id, "", FALSE)>>))
                       ELSE lookups(<<getPhotos>>, album.photo)
           ELSE lookups(<<>>, photo_id)

\* flickr_get_photo_contexts; photo_id is << >> and album_id is "" when left out
flickr_get_photo_contexts(photo_id, album_id) ==
    /\ Ready
    /\ LET args == <<photo_id, album_id>>
           tool == "flickr_get_photo_contexts"
           lookups(before, ids) ==
               \E as \in [1..Len(ids) -> ContextsAnswers],
                  order \in CompletionOrders(Len(ids)) :
                  LET cs == [k \in 1..Len(ids) |->
                               Call("flickr.photos.getAllContexts", [photo_id |-> ids[k]], as[k])]
                      per == [k \in 1..Len(ids) |->
                                IF as[k].ok
                                THEN Part(ids[k], [pools |-> as[k].pool, albums |-> as[k].set],
                                          FALSE)
                                ELSE Part(ids[k], ErrorText(as[k]), TRUE)]
                      results == PromiseAll(per, order)
                  IN  Returned(before \o cs,
                          Reply(tool, FALSE, args,
                                <<Item("text", "contexts", album_id, results, FALSE)>>))
       IN  IF photo_id = <<>> /\ album_id = ""
           THEN Returned(<<>>, Reply(tool, TRUE, args,
                                     <<Item("text", "usage", "", "", TRUE)>>))
           ELSE IF album_id # ""
           THEN \E album \in AlbumPhotosAnswers :
                   LET getPhotos == Call("flickr.photosets.getPhotos",
                                         [photoset_id |-> album_id, user_id |-> UserId,
                                          per_page |-> "500", page |-> "1"], album)
                   IN  IF ~album.ok
                       THEN Returned(<<getPhotos>>, Caught(tool, args, album))
                       ELSE IF Len(album.photo) = 0
                       THEN Returned(<<getPhotos>>,
                                Reply(tool, FALSE, args,
                                      <<Item("text", "album_empty", album_id, "", FALSE)>>))
                       ELSE lookups(<<getPhotos>>, album.photo)
           ELSE lookups(<<>>, photo_id)

\* infoRes.photo.visibility of the primary photo of an album
AlbumVisibilities ==
    {Null} \cup [ispublic : {0, 1}, isfriend : {0, 1}, isfamily : {0, 1}]

VisibilityOf(vis) ==
    IF vis = Null THEN "private"
    ELSE IF vis.ispublic = 1 THEN "public"
    ELSE IF vis.isfriend = 1 /\ vis.isfamily = 1 THEN "friends & family"
    ELSE IF vis.isfriend = 1 THEN "friends"
    ELSE IF vis.isfamily = 1 THEN "family"
    ELSE "private"

PrimaryInfoAnswers ==
    Failures \cup { [ok |-> TRUE, visibility |-> v] : v \in AlbumVisibilities }

\* res.photosets.photoset; primary is "" when the album has no primary photo
PhotosetAnswers ==
    Failures \cup
    { [ok |-> TRUE, photoset |-> ps] :
        ps \in { <<>>,
                 <<[id |-> "a1", primary |-> "p1"]>>,
                 <<[id |-> "a1", primary |-> "p1"], [id |-> "a2", primary |-> ""]>>,
                 <<[id |-> "a1", primary |-> "p1"], [id |-> "a2", primary |-> "p2"]>> } }

\* flickr_list_albums; user_id is "" when left out
flickr_list_albums(user_id) ==
    /\ Ready
    /\ \E list \in PhotosetAnswers :
          LET args == <<user_id>>
              tool == "flickr_list_albums"
              targetUser == IF user_id # "" THEN user_id ELSE UserId
              getList == Call("flickr.photosets.getList",
                              [user_id |-> targetUser, per_page |-> "20", page |-> "1"], list)
          IN  IF ~list.ok
              THEN Returned(<<getList>>, Caught(tool, args, list))
              ELSE IF Len(list.photoset) = 0
              THEN Returned(<<getList>>,
                       Reply(tool, FALSE, args,
                             <<Item("text", "no_albums", targetUser, "", FALSE)>>))
              ELSE \E as \in [1..Len(list.photoset) -> PrimaryInfoAnswers] :
                      LET photosets == list.photoset
                          n == Len(photosets)
                          getInfos == Flatten([k \in 1..n |->
                                         IF photosets[k].primary = "" THEN <<>>
                                         ELSE <<Call("flickr.photos.getInfo",
                                                     [photo_id |-> photosets[k].primary],
                                                     as[k])>>])
                          visibility(k) ==
                              IF photosets[k].primary = "" THEN "unknown"
                              ELSE IF ~as[k].ok THEN "unknown"
                              ELSE VisibilityOf(as[k].visibility)
                      IN  Returned(<<getList>> \o getInfos,
                              Reply(tool, FALSE, args,
                                    <<Item("text", "albums", targetUser,
                                           [k \in 1..n |->
                                              Part(photosets[k].id, visibility(k), FALSE)],
                                           FALSE)>>))

\* an optional string argument: << >> when the caller left it out, <<v>> when
\* the caller passed the string v
Undefined == <<>>
OptionalStrings == { Undefined, <<"">>, <<"T">> }

\* !value of JavaScript for an optional string: undefined and "" are falsy
Falsy(value) == value = Undefined \/ value[1] = ""

\* params of flickr.photos.setMeta: photo_id, and title and description when
\* they are not undefined
setMetaParams(photo_id, title, description) ==
    IF title # Undefined /\ description # Undefined
    THEN [photo_id |-> photo_id, title |-> title[1], description |-> description[1]]
    ELSE IF title # Undefined
    THEN [photo_id |-> photo_id, title |-> title[1]]
    ELSE IF description # Undefined
    THEN [photo_id |-> photo_id, description |-> description[1]]
    ELSE [photo_id |-> photo_id]

flickr_set_metadata(photo_id, title, description) ==
    /\ Ready
    /\ LET args == <<photo_id, title, description>>
           tool == "flickr_set_metadata"
       IN  IF Falsy(title) /\ Falsy(description)
           THEN Returned(<<>>, Reply(tool, TRUE, args,
                                     <<Item("text", "usage", photo_id, "", TRUE)>>))
           ELSE \E set \in PlainAnswers :
                   LET setMeta == Call("flickr.photos.setMeta",
                                       setMetaParams(photo_id, title, description), set)
                   IN  IF ~set.ok
                       THEN Returned(<<setMeta>>, Caught(tool, args, set))
                       ELSE Returned(<<setMeta>>,
                                Reply(tool, FALSE, args,
                                      <<Item("text", "updated", photo_id,
                                             [title |-> title, description |-> description],
                                             FALSE)>>))

\* the arguments of flickr_get_stats as the schema lets them through: mode is
\* one of two, photo_id and date are optional strings, sort is one of three
\* (default "views"), count an integer from 1 to 100 (default 25)
StatsModes == { "popular", "photo_daily" }
StatsPhotoIds == { Undefined, <<"">>, <<"p1">> }
StatsDates == { Undefined, <<"">>, <<"2024-05-01">> }
StatsSorts == { "views", "comments", "favorites" }
StatsCounts == { 1, 25, 100 }

\* new Date().toISOString().split("T")[0]
Today == "today"

\* res.photos.photo of flickr.stats.getPopularPhotos: a photo comes with
\* stats, or with views only, or with none of them
PopularPhotoRows ==
    { [id |-> "p1", stats |-> Null, views |-> Null],
      [id |-> "p1", stats |-> Null, views |-> [value |-> "3"]],
      [id |-> "p1", stats |-> [views |-> "7", favorites |-> "2", comments |-> "1"],
       views |-> Null] }

PopularStatsAnswers ==
    Failures \cup { [ok |-> TRUE, photo |-> ps] : ps \in {<<>>} \cup { <<p>> : p \in PopularPhotoRows } }

\* res.stats of flickr.stats.getPhotoStats
PhotoStatsAnswers ==
    Failures \cup { [ok |-> TRUE, stats |-> [views |-> "7", favorites |-> "2", comments |-> "1"]] }

\* the row handed to formatStatsTable: p.stats?.views ?? p.views ?? "0",
\* p.stats?.favorites ?? "-", p.stats?.comments ?? "-"
StatsRow(p) ==
    [id |-> p.id,
     views |-> IF p.stats # Null THEN p.stats.views
               ELSE IF p.views # Null THEN p.views.value ELSE "0",
     favorites |-> IF p.stats # Null THEN p.stats.favorites ELSE "-",
     comments |-> IF p.stats # Null THEN p.stats.comments ELSE "-"]

\* params of flickr.stats.getPopularPhotos: date only when it is truthy
popularParams(date, sort, count) ==
    IF Falsy(date)
    THEN [sort |-> sort, per_page |-> ToString(count)]
    ELSE [sort |-> sort, per_page |-> ToString(count), date |-> date[1]]

\* the handler going on to flickr.stats.getPhotoStats without a photo_id
flickr_get_stats_unguarded(mode, photo_id, date, sort, count) ==
    /\ Ready
    /\ LET args == <<mode, photo_id, date, sort, count>>
           tool == "flickr_get_stats"
       IN  IF mode = "popular"
           THEN \E popular \in PopularStatsAnswers :
                   LET getPopularPhotos == Call("flickr.stats.getPopularPhotos",
                                                popularParams(date, sort, count), popular)
                   IN  IF ~popular.ok
                       THEN Returned(<<getPopularPhotos>>, Caught(tool, args, popular))
                       ELSE Returned(<<getPopularPhotos>>,
                                Reply(tool, FALSE, args,
                                      <<Item("text", "popular", sort,
                                             [k \in 1..Len(popular.photo) |->
                                                 StatsRow(popular.photo[k])],
                                             FALSE)>>))
           ELSE \E daily \in PhotoStatsAnswers :
                   LET params == [photo_id |-> IF photo_id = Undefined THEN "" ELSE photo_id[1],
                                  date |-> IF Falsy(date) THEN Today ELSE date[1]]
                       getPhotoStats == Call("flickr.stats.getPhotoStats", params, daily)
                   IN  IF ~daily.ok
                       THEN Returned(<<getPhotoStats>>, Caught(tool, args, daily))
                       ELSE Returned(<<getPhotoStats>>,
                                Reply(tool, FALSE, args,
                                      <<Item("text", "daily", params.photo_id,
                                             [date |-> params.date, stats |-> daily.stats],
                                             FALSE)>>))

flickr_get_stats(mode, photo_id, date, sort, count) ==
    /\ Ready
    /\ LET args == <<mode, photo_id, date, sort, count>>
           tool == "flickr_get_stats"
       IN  IF mode = "popular"
           THEN \E popular \in PopularStatsAnswers :
                   LET getPopularPhotos == Call("flickr.stats.getPopularPhotos",
                                                popularParams(date, sort, count), popular)
                   IN  IF ~popular.ok
                       THEN Returned(<<getPopularPhotos>>, Caught(tool, args, popular))
                       ELSE Returned(<<getPopularPhotos>>,
                                Reply(tool, FALSE, args,
                                      <<Item("text", "popular", sort,
                                             [k \in 1..Len(popular.photo) |->
                                                 StatsRow(popular.photo[k])],
                                             FALSE)>>))
           ELSE IF Falsy(photo_id)
           THEN Returned(<<>>, Reply(tool, TRUE, args,
                                     <<Item("text", "usage", "", "", TRUE)>>))
           ELSE \E daily \in PhotoStatsAnswers :
                   LET params == [photo_id |-> photo_id[1],
                                  date |-> IF Falsy(date) THEN Today ELSE date[1]]
                       getPhotoStats == Call("flickr.stats.getPhotoStats", params, daily)
                   IN  IF ~daily.ok
                       THEN Returned(<<getPhotoStats>>, Caught(tool, args, daily))
                       ELSE Returned(<<getPhotoStats>>,
                                Reply(tool, FALSE, args,
                                      <<Item("text", "daily", params.photo_id,
                                             [date |-> params.date, stats |-> daily.stats],
                                             FALSE)>>))

\* The notes kept while the Flickr tools run.  They are about entity "n7", an
\* id that no caller passes to a Flickr tool and no Flickr answer holds, so a
\* call parameter equal to it can only have come out of the note store.
MaxLocalNotes == 1
LocalAdds == { <<"photo", "n7", <<"A", "b">>>> }
LocalGets == { <<"photo", "n7">> }
LocalQueries == { <<"a">> }

FlickrNext ==
    \/ Start
    \/ Respond
    \/ /\ Ready
       /\ data.next_id <= MaxLocalNotes
       /\ \E a \in LocalAdds : flickr_add_note(a[1], a[2], a[3])
    \/ Ready /\ \E g \in LocalGets : flickr_get_notes(g[1], g[2])
    \/ Ready /\ \E k \in 1..MaxLocalNotes : flickr_delete_note(k)
    \/ Ready /\ \E q \in LocalQueries : flickr_search_notes(q)
    \/ \E photo_id \in {"", "p1"}, days \in 0..MaxBatch :
          flickr_get_photo_referrers(photo_id, 10, days)
    \/ \E photo_id \in {<<>>} \cup ViewInputs, album_id \in {"", "a1"} :
          flickr_get_photo_contexts(photo_id, album_id)
    \/ \E user_id \in {"", "u2"} : flickr_list_albums(user_id)
    \/ \E ids \in ViewInputs : flickr_view_thumbs(ids)
    \/ \E days \in 0..MaxBatch : flickr_get_activity(10, days)
    \/ \E p \in PhotoIds, g \in GroupIds : flickr_add_to_group(p, g)
    \/ \E g \in GroupIds, agreed \in BOOLEAN : flickr_join_group(g, agreed)
    \/ \E photo_id \in ViewPhotoInputs : flickr_view_photo(photo_id)
    \/ \E p \in PhotoIds, title \in OptionalStrings, description \in OptionalStrings :
          flickr_set_metadata(p, title, description)
    \/ \E mode \in StatsModes, photo_id \in StatsPhotoIds, date \in StatsDates,
          sort \in StatsSorts, count \in StatsCounts :
          flickr_get_stats(mode, photo_id, date, sort, count)

SpecFlickr == Init /\ [][FlickrNext]_vars


----------------------------------------------------------------------------
(* The start of the process, one step for each stretch of main that runs
   without waiting: up to the await in initFlickrClient, from the answer of
   flickr.test.login to the connected transport, and main's catch. *)

\* loadCredentials() throws when an environment variable is missing
CredentialEnvs == { "present", "missing" }

\* what validateCredentials gets from flickr.test.login
LoginAnswers == Failures \cup { [ok |-> TRUE, userId |-> UserId] }

NotInitialized ==
    [threw |-> TRUE, message |-> "Flickr client not initialized. Call initFlickrClient() first."]

\* getFlickr() as the module variables of c stand
getFlickr(c) == IF ~c.flickr THEN NotInitialized ELSE [threw |-> FALSE, value |-> "flickr"]

\* getUserId() as the module variables of c stand
getUserId(c) == IF c.userId = "" THEN NotInitialized ELSE [threw |-> FALSE, value |-> c.userId]

\* main connecting the transport before it calls initFlickrClient
initFlickrClient_connectedFirst(env) ==
    /\ ~running
    /\ proc.main \in {"off", "exit1"}
    /\ running' = TRUE
    /\ proc' = IF env = "missing"
               THEN Proc("rejected", FALSE, "", TRUE)
               ELSE Proc("validating", TRUE, "", TRUE)
    /\ res' = Answer("initFlickrClient", IF env = "missing" THEN "rejected" ELSE "pending",
                     <<env>>, None, None)
    /\ calls' = <<>>
    /\ UNCHANGED <<now, data, file, db, pre, seeded, returned, live, delLog, watch, fault,
                   oauth>>

\* main calls initFlickrClient: loadCredentials, createAuthenticatedClient,
\* _flickr = flickr, and the call of validateCredentials, whose answer is
\* awaited
initFlickrClient(env) ==
    /\ ~running
    /\ proc.main \in {"off", "exit1"}
    /\ proc' = IF env = "missing"
               THEN Proc("rejected", FALSE, "", FALSE)
               ELSE Proc("validating", TRUE, "", FALSE)
    /\ res' = Answer("initFlickrClient", IF env = "missing" THEN "rejected" ELSE "pending",
                     <<env>>, None, None)
    /\ calls' = <<>>
    /\ UNCHANGED <<running, now, data, file, db, pre, seeded, returned, live, delLog, watch,
                   fault, oauth>>

\* flickr.test.login has answered.  A failure rejects initFlickrClient.  With
\* an answer _userId is set and main goes on without waiting: initNotesDb,
\* whose throw ends in main's catch and process.exit(1), then the
\* register...Tools calls and server.connect
validateCredentials ==
    /\ proc.main = "validating"
    /\ \E login \in LoginAnswers :
          /\ calls' = <<Call("flickr.test.login", <<>>, login)>>
          /\ IF ~login.ok
             THEN /\ proc' = [proc EXCEPT !.main = "rejected"]
                  /\ res' = Answer("initFlickrClient", "rejected", None, None, None)
                  /\ UNCHANGED <<running, data, file, db, watch>>
             ELSE IF initNotesDb(file).threw
             THEN /\ proc' = Exit1Proc
                  /\ res' = Answer("start", "failed", None, None, None)
                  /\ UNCHANGED <<running, data, file, db, watch>>
             ELSE /\ running' = TRUE
                  /\ proc' = UpProc
                  /\ data' = initNotesDb(file).data
                  /\ file' = initNotesDb(file).file
                  /\ db' = sqlite_initNotesDb(db)
                  /\ res' = Answer("start", "ok", None, None, None)
                  /\ watch' = IF watch = "deleted" THEN "reloaded" ELSE watch
    /\ UNCHANGED <<now, pre, seeded, returned, live, delLog, fault, oauth>>

\* main's catch: "startup failed" is logged and the process exits with 1
main_catch ==
    /\ proc.main = "rejected"
    /\ proc' = Exit1Proc
    /\ running' = FALSE
    /\ res' = Answer("start", "failed", None, None, None)
    /\ UNCHANGED <<now, data, file, db, pre, seeded, returned, live, delLog, watch, fault,
                   calls, oauth>>

StartupNext ==
    \/ \E env \in CredentialEnvs : initFlickrClient(env)
    \/ validateCredentials
    \/ main_catch
    \/ Exit
    \/ Respond
    \/ /\ Ready
       /\ data.next_id <= MaxLocalNotes
       /\ \E a \in LocalAdds : flickr_add_note(a[1], a[2], a[3])
    \/ Ready /\ \E g \in LocalGets : flickr_get_notes(g[1], g[2])
    \/ Ready /\ \E k \in 1..MaxLocalNotes : flickr_delete_note(k)
    \/ /\ Ready
       /\ \E a \in LocalAdds : crash_in_addNote(a[1], a[2], a[3])
    \/ \E p \in PhotoIds, title \in OptionalStrings, description \in OptionalStrings :
          flickr_set_metadata(p, title, description)

SpecStartup == Init /\ [][StartupNext]_vars


----------------------------------------------------------------------------
(* The setup script (npm run setup-auth): waitForCallback starts an HTTP
   server and a timer and hands back a promise.  server.close() stops the
   listening; a connection that is already open can still bring a request. *)

MaxEvents == 3

\* url.searchParams.get("oauth_verifier"): null, or the value given
NoVerifier == [null |-> TRUE, value |-> ""]
Verifiers == { NoVerifier, [null |-> FALSE, value |-> ""],
               [null |-> FALSE, value |-> "v1"], [null |-> FALSE, value |-> "v2"] }
Paths == { "/callback", "/other" }

Request(path, verifier) == [kind |-> "request", path |-> path, verifier |-> verifier]
Timeout == [kind |-> "timeout"]

\* if (verifier): null and "" are falsy
HasVerifier(verifier) == ~verifier.null /\ verifier.value # ""

\* resolve and reject of a promise: they settle it when it is pending and do
\* nothing otherwise
Settled(o, promise, value) ==
    IF o.promise = "pending" THEN [o EXCEPT !.promise = promise, !.value = value] ELSE o

\* main of the setup script calls waitForCallback
waitForCallback ==
    /\ oauth.promise = "none"
    /\ ~running
    /\ proc.main = "off"
    /\ oauth' = [promise |-> "pending", value |-> "", server |-> "listening", timer |-> "armed",
                 status |-> 0, log |-> <<>>]
    /\ UNCHANGED <<running, now, data, file, db, res, pre, seeded, returned, live, delLog,
                   watch, fault, calls, proc>>

\* the request handler rejecting without closing the server
onRequest_leftOpen(path, verifier) ==
    /\ oauth.server \in {"listening", "closed"}
    /\ Len(oauth.log) < MaxEvents
    /\ LET logged == [oauth EXCEPT !.log = Append(@, Request(path, verifier))]
       IN  oauth' =
             IF path = "/callback"
             THEN IF HasVerifier(verifier)
                  THEN Settled([logged EXCEPT !.status = 200, !.server = "closed"],
                               "fulfilled", verifier.value)
                  ELSE Settled([logged EXCEPT !.status = 400],
                               "rejected", "No oauth_verifier in callback")
             ELSE [logged EXCEPT !.status = 404]
    /\ UNCHANGED <<running, now, data, file, db, res, pre, seeded, returned, live, delLog,
                   watch, fault, calls, proc>>

\* the request handler of createServer
onRequest(path, verifier) ==
    /\ oauth.server \in {"listening", "closed"}
    /\ Len(oauth.log) < MaxEvents
    /\ LET logged == [oauth EXCEPT !.log = Append(@, Request(path, verifier))]
       IN  oauth' =
             IF path = "/callback"
             THEN IF HasVerifier(verifier)
                  THEN Settled([logged EXCEPT !.status = 200, !.server = "closed"],
                               "fulfilled", verifier.value)
                  ELSE Settled([logged EXCEPT !.status = 400, !.server = "closed"],
                               "rejected", "No oauth_verifier in callback")
             ELSE [logged EXCEPT !.status = 404]
    /\ UNCHANGED <<running, now, data, file, db, res, pre, seeded, returned, live, delLog,
                   watch, fault, calls, proc>>

\* the callback of setTimeout, after 5 minutes
onTimeout ==
    /\ oauth.timer = "armed"
    /\ Len(oauth.log) < MaxEvents
    /\ oauth' = Settled([oauth EXCEPT !.log = Append(@, Timeout), !.timer = "fired",
                                      !.server = "closed"],
                        "rejected", "OAuth callback timed out after 5 minutes")
    /\ UNCHANGED <<running, now, data, file, db, res, pre, seeded, returned, live, delLog,
                   watch, fault, calls, proc>>

SetupNext ==
    \/ waitForCallback
    \/ \E path \in Paths, verifier \in Verifiers : onRequest(path, verifier)
    \/ onTimeout

SpecSetup == Init /\ [][SetupNext]_vars

----------------------------------------------------------------------------
(* Properties *)

Ids(rows) == { rows[k].id : k \in 1..Len(rows) }

\* what a caller gave and got: the fields of a row that do not depend on the clock
Given(r) ==
    [id |-> r.id, entity_type |-> r.entity_type, entity_id |-> r.entity_id,
     note |-> r.note]

Answered(tool) == res.tool = tool /\ res.outcome = "ok"

\* C1: every id addNote returns is greater than every id it returned before,
\* and no two stored notes share an id, in either backend.
C1_IdsIncreasingAndUnique ==
    /\ \A a, b \in 1..Len(returned) :
          a < b => /\ returned[a].json < returned[b].json
                   /\ returned[a].sql < returned[b].sql
    /\ running => Cardinality(Ids(data.notes)) = Len(data.notes)
    /\ Cardinality(Ids(db.rows)) = Len(db.rows)

\* an add answered after an earlier note was deleted
C1_Witness ==
    /\ Answered("flickr_add_note")
    /\ Len(returned) >= 2
    /\ \E k \in 1..Len(delLog) : delLog[k].first = <<TRUE, TRUE>>

\* C2: the id an addNote returns was returned by no earlier addNote, also
\* after the newest note was deleted and the store re-initialised from its file.
C2_IdNeverReused ==
    Answered("flickr_add_note") =>
        \A k \in 1..(Len(returned) - 1) :
            /\ returned[k].json # res.json.id
            /\ returned[k].sql # res.sql.id

\* the newest note was deleted, the process restarted, and a note was added
C2_Witness == watch = "added" /\ Answered("flickr_add_note")

\* C3: getNotes(t, i) answers with exactly the notes added with (t, i) and not
\* deleted since, each once.
C3_GetNotesExact ==
    Answered("flickr_get_notes") =>
        LET want == { Given(a) : a \in { x \in live : x.entity_type = res.args[1]
                                                      /\ x.entity_id = res.args[2] } }
        IN  /\ { Given(r) : r \in Range(res.json) } = want
            /\ Len(res.json) = Cardinality(want)
            /\ { Given(r) : r \in Range(res.sql) } = want
            /\ Len(res.sql) = Cardinality(want)

\* getNotes answered with a note while a note of another entity is stored and
\* a third one was deleted
C3_Witness ==
    /\ Answered("flickr_get_notes")
    /\ Len(res.json) >= 1
    /\ Cardinality(live) > Len(res.json)
    /\ Len(returned) > Cardinality(live)

\* the place a note has in the order of the adds
Ord(id) == (CHOOSE a \in live : a.id = id).ord

NewestFirst(rows) ==
    \A a, b \in 1..Len(rows) : a < b => Ord(rows[a].id) > Ord(rows[b].id)

\* C4: in the answer of getNotes a note added later stands before a note added
\* earlier, also when both were added within one clock second.
C4_GetNotesNewestFirst ==
    Answered("flickr_get_notes") => NewestFirst(res.json) /\ NewestFirst(res.sql)

\* C5: for every note added, the first deleteNote with its id answers true and
\* every later one false.
C5_DeleteTrueOnce ==
    \A k \in 1..Len(delLog) :
        /\ delLog[k].first \in { <<>>, <<TRUE, TRUE>> }
        /\ TRUE \notin delLog[k].later

\* a note was deleted, deleted again, and another note was added after it
C5_Witness ==
    \E k \in 1..Len(delLog) :
        /\ delLog[k].first # <<>>
        /\ delLog[k].later # {}
        /\ Len(returned) > k

\* C6: deleteNote with an id that is not stored answers false and leaves the
\* notes, the next id and the file as they were; with a stored id it removes
\* that note and no other.
C6_DeleteFrame ==
    res.tool = "flickr_delete_note" =>
        LET k == res.args[1]
        IN  /\ k \notin Ids(pre.data.notes) =>
                  /\ res.json = FALSE
                  /\ res.outcome = "not_found"
                  /\ data = pre.data
                  /\ file = pre.file
            /\ k \in Ids(pre.data.notes) =>
                  /\ res.json = TRUE
                  /\ data.next_id = pre.data.next_id
                  /\ data.notes = SelectSeq(pre.data.notes, LAMBDA n : n.id # k)
                  /\ Parse(file) = data
            /\ k \notin Ids(pre.db.rows) => res.sql = FALSE /\ db = pre.db
            /\ k \in Ids(pre.db.rows) =>
                  /\ res.sql = TRUE
                  /\ db.seq = pre.db.seq
                  /\ db.rows = SelectSeq(pre.db.rows, LAMBDA n : n.id # k)

\* a delete found nothing, in a store that holds a note and has lost another
C6_Witness ==
    /\ res.tool = "flickr_delete_note"
    /\ res.outcome = "not_found"
    /\ running
    /\ Len(data.notes) >= 1
    /\ Len(returned) > Len(data.notes)

\* C7: an add with an empty text or an entity_type other than photo, album,
\* group fails validation; no note is stored, no id used, no file written.
C7_InvalidAddRejected ==
    (/\ res.tool = "flickr_add_note"
     /\ (res.args[3] = <<>> \/ res.args[1] \notin {"photo", "album", "group"}))
    => /\ res.outcome = "invalid_params"
       /\ data = pre.data
       /\ file = pre.file
       /\ db = pre.db

\* an add with an empty text was refused by a store that holds a note
C7_Witness ==
    /\ res.tool = "flickr_add_note"
    /\ res.outcome = "invalid_params"
    /\ res.args[3] = <<>>
    /\ res.args[1] = "photo"
    /\ running
    /\ Len(data.notes) >= 1

\* text contains q, letters compared without regard to case, every other
\* character as itself
ContainsLiterally(text, q) ==
    \E off \in 0..(Len(text) - Len(q)) :
        \A j \in 1..Len(q) : LowerChar(text[off + j]) = LowerChar(q[j])

\* C8: searchNotes(q) answers only with notes whose text contains q, case
\* aside and character for character, and with all of them while fewer than
\* 50 match.
C8_SearchLiteral ==
    Answered("flickr_search_notes") =>
        LET q == res.args[1]
            want == { Given(a) : a \in { x \in live : ContainsLiterally(x.note, q) } }
        IN  \A r \in {res.json, res.sql} :
               /\ \A k \in 1..Len(r) : ContainsLiterally(r[k].note, q)
               /\ Cardinality(want) < 50 => { Given(x) : x \in Range(r) } = want

NotIncreasing(rows) ==
    \A a, b \in 1..Len(rows) : a < b => rows[a].created_at >= rows[b].created_at

\* the notes of M that at most 49 notes of M were added after
NewestFifty(M) == { a \in M : Cardinality({ b \in M : b.ord > a.ord }) < 50 }

\* C9: searchNotes answers with at most 50 notes, newest first, and when more
\* than 50 notes match with the 50 matching notes added last.  (Newest first
\* is taken here as created_at not increasing, the reading the code meets.)
C9_SearchNewestFifty ==
    Answered("flickr_search_notes") =>
        LET M == { a \in live : ContainsLiterally(a.note, res.args[1]) }
        IN  \A r \in {res.json, res.sql} :
               /\ Len(r) <= 50
               /\ NotIncreasing(r)
               /\ Cardinality(M) > 50 =>
                     { Given(x) : x \in Range(r) } = { Given(a) : a \in NewestFifty(M) }

Smaller(a, b) == IF a < b THEN a ELSE b

\* all of rows, or 50 of them, each once
AllUpToFifty(r, rows) ==
    /\ Len(r) = Smaller(Len(rows), 50)
    /\ Range(r) \subseteq Range(rows)
    /\ Cardinality(Range(r)) = Len(r)

\* C10 as stated: the empty query matches every stored note, up to 50, for
\* searchNotes and for flickr_search_notes.
C10_EmptyQueryMatchesAll ==
    /\ running => AllUpToFifty(searchNotes(data, <<>>), data.notes)
    /\ (res.tool = "flickr_search_notes" /\ res.args[1] = <<>>) =>
          /\ res.outcome = "ok"
          /\ AllUpToFifty(res.json, data.notes)

\* C10 as amended: the empty query matches every stored note, up to 50, for
\* searchNotes of either backend; flickr_search_notes refuses the empty query
\* and does not search.
C10_EmptyQueryStoreOnly ==
    /\ running => AllUpToFifty(searchNotes(data, <<>>), data.notes)
    /\ \A r \in sqlite_searchNotes(db, <<>>) :
          AllUpToFifty([k \in 1..Len(r) |-> Given(r[k])],
                       [k \in 1..Len(db.rows) |-> Given(db.rows[k])])
    /\ (res.tool = "flickr_search_notes" /\ res.args[1] = <<>>) =>
          /\ res.outcome = "invalid_params"
          /\ res.json = None
          /\ res.sql = None

\* the empty query was given to flickr_search_notes over more than 50 notes
C10_Witness ==
    /\ res.tool = "flickr_search_notes"
    /\ res.args[1] = <<>>
    /\ running
    /\ Len(data.notes) > 50

\* the fields of a note
Fields(r) ==
    [id |-> r.id, entity_type |-> r.entity_type, entity_id |-> r.entity_id,
     note |-> r.note, created_at |-> r.created_at]

\* C11: at any moment the store is up, initNotesDb run again on the file it
\* has written gives a store whose getNotes answers, for every entity, with
\* the same notes as now: same id, entity_type, entity_id, text and
\* created_at.  After a restart the store equals what its file held.
C11_RoundTrip ==
    /\ running =>
          /\ initNotesDb(file).file = file
          /\ \A g \in GetInputs :
                getNotes(initNotesDb(file).data, g[1], g[2]) = getNotes(data, g[1], g[2])
          /\ \A g \in GetInputs :
                sqlite_getNotes(sqlite_initNotesDb(db), g[1], g[2])
                    = sqlite_getNotes(db, g[1], g[2])
    /\ Answered("flickr_get_notes") =>
          /\ { Fields(r) : r \in Range(res.json) }
                = { Fields(a) : a \in { x \in live : x.entity_type = res.args[1]
                                                      /\ x.entity_id = res.args[2] } }
          /\ { Fields(r) : r \in Range(res.sql) }
                = { Fields(a) : a \in { x \in live : x.entity_type = res.args[1]
                                                      /\ x.entity_id = res.args[2] } }

\* after the newest note was deleted and the process restarted, getNotes
\* answered with a note that was added in a later second than 0
C11_Witness ==
    /\ watch = "reloaded"
    /\ Answered("flickr_get_notes")
    /\ \E k \in 1..Len(res.json) : res.json[k].created_at > 0

\* C13: a stored note is never changed.  Every note getNotes or searchNotes
\* answers with has the id, entity_type, entity_id, text and created_at its
\* addNote gave it, and at every moment the stored notes are the notes added
\* and not deleted by their own id.
C13_NeverMutated ==
    /\ (Answered("flickr_get_notes") \/ Answered("flickr_search_notes")) =>
          /\ { Fields(r) : r \in Range(res.json) } \subseteq { Fields(a) : a \in live }
          /\ { Fields(r) : r \in Range(res.sql) } \subseteq { Fields(a) : a \in live }
    /\ running => { Fields(r) : r \in Range(data.notes) } = { Fields(a) : a \in live }
    /\ { Fields(r) : r \in Range(db.rows) } = { Fields(a) : a \in live }
    /\ res.tool \in {"flickr_get_notes", "flickr_search_notes"} =>
          data = pre.data /\ file = pre.file /\ db = pre.db

\* searchNotes answered with a note with a capital letter, after a restart
\* and a delete of another note
C13_Witness ==
    /\ Answered("flickr_search_notes")
    /\ \E k \in 1..Len(res.json) : res.json[k].note = <<"A", "b">>
    /\ watch = "reloaded"

\* d1 is the store d0 after the add or the delete the tool was called for
AfterOp(tool, args, d0, d1) ==
    IF tool = "flickr_add_note"
    THEN /\ d1.next_id = d0.next_id + 1
         /\ Len(d1.notes) = Len(d0.notes) + 1
         /\ SubSeq(d1.notes, 1, Len(d0.notes)) = d0.notes
         /\ Given(d1.notes[Len(d1.notes)])
               = [id |-> d0.next_id, entity_type |-> args[1], entity_id |-> args[2],
                  note |-> args[3]]
    ELSE /\ d1.next_id = d0.next_id
         /\ d1.notes = SelectSeq(d0.notes, LAMBDA n : n.id # args[1])

\* C12: when the process is killed inside addNote or deleteNote, at any point
\* and also in the middle of the write, notes.json holds the whole state from
\* before the operation or the whole state after it, and initNotesDb loads it.
C12_CrashAtomic ==
    fault = "crash" =>
        /\ ~initNotesDb(file).threw
        /\ \/ file = pre.file
           \/ AfterOp(res.tool, res.args, pre.data, initNotesDb(file).data)

\* C14: when the write of the file fails inside addNote or deleteNote, the
\* store operation throws and flickr_add_note / flickr_delete_note answers
\* with isError set ("Failed to ..."), not with a success message.
C14_WriteFailureSurfaces ==
    (fault = "write_fails" /\ res.tool \in {"flickr_add_note", "flickr_delete_note"}) =>
        /\ res.json = Threw
        /\ res.sql = Threw
        /\ res.outcome = "error"

\* a delete failed on its write after an add had failed on its write
C14_Witness ==
    /\ fault = "write_fails"
    /\ res.tool = "flickr_delete_note"
    /\ res.outcome = "error"
    /\ running
    /\ Len(data.notes) >= 1
    /\ data # Parse(pre.file)

\* the calls of method in calls
CallsOf(method) == SelectSeq(calls, LAMBDA c : c.method = method)

\* C16: flickr_add_to_group calls flickr.photos.getInfo first and
\* flickr.groups.pools.add only when that answer has visibility.ispublic = 1;
\* otherwise it answers with isError and calls nothing more.
C16_AddToGroupPublicOnly ==
    res.tool = "flickr_add_to_group" =>
        /\ calls[1].method = "flickr.photos.getInfo"
        /\ calls[1].params.photo_id = res.args[1]
        /\ IF calls[1].answer.ok /\ calls[1].answer.visibility = <<1>>
           THEN /\ Len(calls) = 2
                /\ calls[2].method = "flickr.groups.pools.add"
                /\ calls[2].params = [photo_id |-> res.args[1], group_id |-> res.args[2]]
           ELSE /\ Len(calls) = 1
                /\ res.outcome = "error"

\* a photo that is not public was refused
C16_Witness ==
    /\ res.tool = "flickr_add_to_group"
    /\ calls[1].answer.ok
    /\ calls[1].answer.visibility = <<0>>
    /\ res.outcome = "error"

\* C17: flickr_join_group with rules that are not empty and the flag false
\* answers with the rules and does not call flickr.groups.join; it sends
\* flickr.groups.join with accept_rules = 1 when the group has rules and the
\* flag is true, and without accept_rules when the group has no rules.
C17_JoinGroupRules ==
    (res.tool = "flickr_join_group" /\ calls[1].answer.ok) =>
        LET rules == calls[1].answer.rules
            hasRules == rules.kind # "undefined" /\ rules.text # <<>>
            agreed == res.args[2]
        IN  /\ (hasRules /\ ~agreed) =>
                  /\ CallsOf("flickr.groups.join") = <<>>
                  /\ res.outcome = "ok"
                  /\ res.content[1].kind = "rules"
                  /\ res.content[1].detail = rules.text
            /\ (hasRules /\ agreed) =>
                  /\ Len(CallsOf("flickr.groups.join")) = 1
                  /\ calls[2].params = [group_id |-> res.args[1], accept_rules |-> "1"]
            /\ ~hasRules =>
                  /\ Len(CallsOf("flickr.groups.join")) = 1
                  /\ calls[2].params = [group_id |-> res.args[1]]

\* the flag was set for a group without rules, and the join went out
C17_Witness ==
    /\ res.tool = "flickr_join_group"
    /\ res.args[2] = TRUE
    /\ Len(calls) = 2
    /\ calls[1].answer.rules.kind = "object"
    /\ calls[1].answer.rules.text = <<>>
    /\ res.outcome = "ok"

\* the label may be shown: a size with it is in the list, its fetch answered
\* ok, and its body has at most 700000 bytes
Qualifies(sizes, label) ==
    \E k \in 1..Len(sizes) :
        /\ sizes[k].label = label
        /\ sizes[k].source.fetch = "ok"
        /\ sizes[k].source.byteLength <= 700000

\* C18: the image fetchPhoto returns has at most MAX_IMAGE_BYTES (700000)
\* bytes and is the first of Large, Medium 800, Medium 640, Medium that is in
\* the sizes list, fetched and within the cap; when no label qualifies it
\* returns null and flickr_view_photo answers with text only, with the URL.
C18_ImageCap ==
    (/\ res.tool = "flickr_view_photo"
     /\ Len(res.args[1].ids) = 1
     /\ calls[1].answer.ok
     /\ calls[2].answer.ok) =>
        LET sizes == calls[2].answer.sizes
            order == <<"Large", "Medium 800", "Medium 640", "Medium">>
            good == { k \in 1..4 : Qualifies(sizes, order[k]) }
        IN  /\ good = {} =>
                  /\ fetchPhoto(sizes) = Null
                  /\ Len(res.content) = 1
                  /\ res.content[1].type = "text"
                  /\ res.content[1].detail = calls[1].answer.photopage
            /\ good # {} =>
                  /\ fetchPhoto(sizes).label = order[CHOOSE k \in good : \A j \in good : k <= j]
                  /\ fetchPhoto(sizes).byteLength <= 700000
                  /\ res.content[1].type = "image"
                  /\ res.content[1].detail = fetchPhoto(sizes)

\* Large was too big by one byte, Medium 800 failed, Medium 640 was shown at
\* exactly 700000 bytes
C18_Witness ==
    /\ res.tool = "flickr_view_photo"
    /\ Len(res.content) = 2
    /\ res.content[1].type = "image"
    /\ res.content[1].detail = [label |-> "Medium 640", byteLength |-> 700000]
    /\ \E k \in 1..Len(calls[2].answer.sizes) :
          /\ calls[2].answer.sizes[k].label = "Large"
          /\ calls[2].answer.sizes[k].source.byteLength = 700001

\* the calls a handler issues side by side, by tool
FanOut ==
    [ flickr_view_thumbs |-> {"flickr.photos.getSizes", "flickr.photos.getInfo"},
      flickr_view_photo |-> {"flickr.photos.getInfo", "flickr.photos.getSizes"},
      flickr_get_photo_contexts |-> {"flickr.photos.getAllContexts"},
      flickr_list_albums |-> {"flickr.photos.getInfo"},
      flickr_get_activity |-> {"flickr.stats.getTotalViews", "flickr.stats.getPopularPhotos"},
      flickr_get_photo_referrers |-> {"flickr.stats.getPhotoReferrers"} ]

\* the parts of the texts of the answer
PartsOf(reply) ==
    Flatten([k \in 1..Len(reply.content) |->
                IF reply.content[k].kind \in {"trend", "referrers"}
                THEN reply.content[k].detail.rows
                ELSE IF reply.content[k].kind \in {"contexts", "albums", "activity"}
                THEN reply.content[k].detail
                ELSE <<>>])

\* the photo or the day the call asks about
SubjectOf(c) == IF "date" \in DOMAIN c.params THEN c.params.date ELSE c.params.photo_id

\* the answer holds an error text for the photo or the day of call c
ToldFor(c) ==
    \/ \E k \in 1..Len(res.content) :
          /\ res.content[k].error
          /\ res.content[k].kind \in {"thumb_title", "photo_error"}
          /\ res.content[k].about = SubjectOf(c)
    \/ \E k \in 1..Len(PartsOf(res)) :
          /\ PartsOf(res)[k].error
          /\ PartsOf(res)[k].about = SubjectOf(c)

\* the failed calls of the last invocation
FailedCalls == { k \in 1..Len(calls) : ~calls[k].answer.ok }

\* C19: in the tools that issue Flickr calls side by side, a call that fails
\* leaves the answers of the calls beside it in the tool's answer (the tool
\* does not answer with an error alone while a call beside it succeeded), and
\* the answer holds an error text for the photo or day of the failed call.
C19_FanOutIsolation ==
    (running /\ res.tool \in DOMAIN FanOut) =>
        \A k \in FailedCalls :
            calls[k].method \in FanOut[res.tool] =>
                /\ (\E j \in 1..Len(calls) :
                        /\ calls[j].method \in FanOut[res.tool]
                        /\ calls[j].answer.ok) => res.outcome = "ok"
                /\ ToldFor(calls[k])

\* C20: whenever a Flickr call of a tool invocation failed, the answer is an
\* error answer or holds an error text for what the call was about; it is
\* never an answer that shows nothing but empty or zero results.
C20_ErrorSurfacing ==
    (running /\ res.tool \in FlickrTools) =>
        \A k \in FailedCalls :
            \/ res.outcome = "error"
            \/ \E i \in 1..Len(res.content) : res.content[i].error
            \/ \E i \in 1..Len(PartsOf(res)) : PartsOf(res)[i].error

\* the notes in the store
StoredNotes == IF running THEN Range(data.notes) ELSE {}

C21_SetMetadata ==
    res.tool = "flickr_set_metadata" =>
        LET title == res.args[2]
            description == res.args[3]
            provided == {"photo_id"}
                        \cup (IF title # Undefined THEN {"title"} ELSE {})
                        \cup (IF description # Undefined THEN {"description"} ELSE {})
        IN  IF title = Undefined /\ description = Undefined
            THEN res.outcome = "error" /\ calls = <<>>
            ELSE /\ Len(calls) = 1
                 /\ calls[1].method = "flickr.photos.setMeta"
                 /\ DOMAIN calls[1].params = provided
                 /\ calls[1].params.photo_id = res.args[1]
                 /\ title # Undefined => calls[1].params.title = title[1]
                 /\ description # Undefined => calls[1].params.description = description[1]

\* the ids the content items are about, an id once for each run of items
RECURSIVE Blocks(_)
Blocks(abouts) ==
    IF Len(abouts) <= 1 THEN abouts
    ELSE IF abouts[1] = abouts[2] THEN Blocks(Tail(abouts))
    ELSE <<abouts[1]>> \o Blocks(Tail(abouts))

\* the answer of flickr_view_photo has one block for each requested id, in
\* the order requested
ViewBlocksInOrder ==
    Blocks([k \in 1..Len(res.content) |-> res.content[k].about]) = res.args[1].ids

C23_BackendsAgree ==
    /\ (res.tool = "flickr_add_note" /\ res.outcome = "ok") => res.json.id = res.sql.id
    /\ res.tool = "flickr_delete_note" => res.json = res.sql
    /\ (res.tool \in {"flickr_get_notes", "flickr_search_notes"} /\ res.outcome = "ok") =>
           [k \in 1..Len(res.json) |-> res.json[k].id]
               = [k \in 1..Len(res.sql) |-> res.sql[k].id]

\* C24: the tools are registered and the transport is connected only when
\* initFlickrClient and initNotesDb have both completed, so a note tool or a
\* Flickr tool has answered only in such a process; a failure of either ends
\* in exit status 1 with no tool registered.
C24_StartupOrdering ==
    /\ running => (proc = UpProc /\ data # NoData)
    /\ proc.tools => proc.main = "up"
    /\ res.tool \in NoteTools \cup FlickrTools =>
          (fault = "crash" \/ (running /\ proc = UpProc))
    /\ proc.main \in {"rejected", "exit1"} => (~running /\ ~proc.tools)
    /\ (res.tool = "start" /\ res.outcome = "failed") => proc.main = "exit1"

\* flickr.test.login answered, the notes file could not be parsed, and the
\* process has exited with 1 without registering a tool
C24_Witness ==
    /\ proc.main = "exit1"
    /\ Len(calls) = 1
    /\ calls[1].answer.ok
    /\ ~Parses(file)

\* C27: getFlickr and getUserId both throw "not initialized" in every state in
\* which initFlickrClient has not completed successfully: before it was
\* called, while it waits for validateCredentials, and after it was rejected.
C27_ClientAllOrNothing ==
    proc.main # "up" =>
        /\ getFlickr(proc) = NotInitialized
        /\ getUserId(proc) = NotInitialized

\* C25: after every addNote and deleteNote call of a running process, returned
\* or thrown, the notes file can be read and holds exactly the notes and the
\* next_id of the store in memory.
C25_MemoryEqualsFile ==
    (running /\ res.tool \in {"flickr_add_note", "flickr_delete_note"}) =>
        /\ Parses(file)
        /\ initNotesDb(file).data = data

\* the ids that flickr_get_photo_contexts looked up: the photos of the album
\* when album_id was given, else photo_id
ContextIds ==
    IF res.args[2] # "" THEN calls[1].answer.photo ELSE res.args[1]

\* C26: flickr_view_thumbs, flickr_view_photo and flickr_get_photo_contexts
\* answer with exactly one entry for each requested photo id, in the order
\* the ids were given, in whatever order the calls made side by side settle.
C26_FanOutOrder ==
    /\ res.tool = "flickr_view_thumbs" =>
          LET texts == SelectSeq(res.content, LAMBDA item : item.type = "text")
          IN  /\ [k \in 1..Len(texts) |-> texts[k].about] = res.args[1]
              /\ Blocks([k \in 1..Len(res.content) |-> res.content[k].about]) = res.args[1]
    /\ res.tool = "flickr_view_photo" =>
          LET texts == SelectSeq(res.content, LAMBDA item : item.type = "text")
          IN  /\ [k \in 1..Len(texts) |-> texts[k].about] = res.args[1].ids
              /\ Blocks([k \in 1..Len(res.content) |-> res.content[k].about])
                    = res.args[1].ids
    /\ (res.tool = "flickr_get_photo_contexts" /\ res.content[1].kind = "contexts") =>
          [k \in 1..Len(res.content[1].detail) |-> res.content[1].detail[k].about]
              = ContextIds

\* of two photos asked for the first failed and the second was shown
C26_Witness ==
    /\ res.tool = "flickr_view_photo"
    /\ Len(res.args[1].ids) = 2
    /\ Len(res.content) = 3
    /\ res.content[1].error
    /\ res.content[2].type = "image"

\* the events that try to settle the promise: requests to /callback and the
\* timeout
Decisive == SelectSeq(oauth.log, LAMBDA e : e.kind = "timeout" \/ e.path = "/callback")

\* the promise is settled by the first decisive event and by nothing after it,
\* where Carries says which requests count as carrying oauth_verifier
SettlesOnce(Carries(_)) ==
    oauth.promise # "none" =>
        /\ Decisive = <<>> =>
              (oauth.promise = "pending" /\ oauth.server = "listening")
        /\ Decisive # <<>> =>
              LET first == Decisive[1]
              IN  /\ oauth.server = "closed"
                  /\ IF first.kind = "timeout"
                     THEN /\ oauth.promise = "rejected"
                          /\ oauth.value = "OAuth callback timed out after 5 minutes"
                     ELSE IF Carries(first.verifier)
                     THEN /\ oauth.promise = "fulfilled"
                          /\ oauth.value = first.verifier.value
                     ELSE /\ oauth.promise = "rejected"
                          /\ oauth.value = "No oauth_verifier in callback"
        /\ (oauth.log # <<>> /\ Last(oauth.log).kind = "request"
                /\ Last(oauth.log).path # "/callback") => oauth.status = 404

\* C28: the promise of waitForCallback is settled by the first request to
\* /callback or the timeout, whichever comes first, and by nothing after it:
\* fulfilled with the verifier when that request carries a verifier (one that
\* is not empty), rejected when it carries none, rejected by the timeout; a
\* request to another path is answered with 404 and settles nothing; once the
\* promise is settled the server is closed.
C28_CallbackSettlesOnce == SettlesOnce(HasVerifier)

\* a request to another path came first, then the callback with verifier v1
\* settled the promise, and the timeout fired after that
C28_Witness ==
    /\ Len(oauth.log) = 3
    /\ oauth.log[1].kind = "request" /\ oauth.log[1].path = "/other"
    /\ oauth.log[3].kind = "timeout"
    /\ oauth.promise = "fulfilled"
    /\ oauth.value = "v1"

\* the photo ids of the calls of flickr.photos.getAllContexts, in the order
\* the calls were issued
ContextCalls ==
    LET cs == SelectSeq(calls, LAMBDA c : c.method = "flickr.photos.getAllContexts")
    IN  [k \in 1..Len(cs) |-> cs[k].params.photo_id]

C30_GetStatsCalls ==
    res.tool = "flickr_get_stats" =>
        LET mode == res.args[1]
            photo_id == res.args[2]
        IN  /\ (mode = "photo_daily" /\ Falsy(photo_id)) =>
                  (res.outcome = "error" /\ calls = <<>>)
            /\ (mode = "photo_daily" /\ ~Falsy(photo_id)) =>
                  /\ Len(calls) = 1
                  /\ calls[1].method = "flickr.stats.getPhotoStats"
                  /\ calls[1].params.photo_id = photo_id[1]
            /\ mode = "popular" =>
                  /\ Len(calls) = 1
                  /\ calls[1].method = "flickr.stats.getPopularPhotos"

\* photo_daily was asked without a photo_id and with a date, and refused
C30_Witness ==
    /\ res.tool = "flickr_get_stats"
    /\ res.args[1] = "photo_daily"
    /\ res.args[2] = Undefined
    /\ res.args[3] = <<"2024-05-01">>
    /\ res.outcome = "error"
    /\ calls = <<>>

====
